---- MODULE Spec2Model ----
(***************************************************************************)
(* The site crawler of app/services/scrap_domain.py: the frontier          *)
(* (enqueue, priority queue, per-label caps), the crawl loop of            *)
(* _crawl_site and the scrap_domain wrapper with _discover_seeds; and the  *)
(* report cache of app/services/report_generation_service.py.              *)
(*                                                                         *)
(* Spec       : one call of _crawl_site with an arbitrary seed list and    *)
(*              budget; every navigation outcome is chosen freely and the  *)
(*              pages are blank.                                           *)
(* SpecContent: one call of _crawl_site with a short seed list whose pages *)
(*              carry e-mails, phones, forms, CTAs and JSON-LD blocks.     *)
(* SpecDomain : one call of scrap_domain with the default budget against   *)
(*              a site fixed at the start (the set of URLs it serves).     *)
(* SpecLive   : Spec with weak fairness of its steps.                      *)
(* SpecReport : calls of ReportGenerationService.generate_report, which    *)
(*              may overlap while they wait for the AI provider.           *)
(***************************************************************************)
EXTENDS Integers, Sequences, FiniteSets, TLC

VARIABLES
    mode,           \* "crawl": _crawl_site called directly; "domain": through scrap_domain
    site,           \* domain mode: the URLs the site answers with an OK response
    max_pages,      \* the page budget
    base_url,       \* the crawl root
    pc,             \* position in the code
    seeds,          \* the seeds not yet offered to the frontier
    visited,        \* visited: Set[str]
    queued,         \* queued: Set[str] (the pending set)
    priority_queue, \* the heap, as the set of its (priority, seq, url, label) entries
    type_enqueued,  \* per-label enqueue counters
    order_counter,  \* next value of count()
    cur,            \* the entry popped by the running iteration
    links_seen,     \* anchors of the current page already walked by the link loop
    pages_data,     \* the snapshots appended so far
    agg,            \* the aggregates: contact_emails, phones_by_e164, forms, CTAs, ...
    page,           \* the locals of the running iteration that the snapshot reads
    crawl_ret,      \* what _crawl_site returned: (site_summary, pages_data)
    response,       \* scrap_domain: outcome of the navigation to the root
    result,         \* what the call returned
    pushed,         \* history: every URL pushed into the heap, in order, with its label,
                    \*          where it was pushed and how many pops came before
    popped,         \* history: every URL popped from the heap, in order
    offered,        \* history: the last URL handed to enqueue and its verdict
    events,         \* history: what happened to each page, as (url, event) pairs
    reports,        \* the report generation service: its tables, clock and calls
    jobs            \* the job service: its tables, _running_jobs and the tasks

crawler == <<mode, site, max_pages, base_url, pc, seeds, visited, queued,
          priority_queue, type_enqueued, order_counter, cur, links_seen,
          pages_data, agg, page, crawl_ret, response, result, pushed, popped,
          offered, events>>

vars == <<crawler, reports, jobs>>

params == <<mode, site, max_pages, base_url>>

frontier == <<priority_queue, queued, type_enqueued, order_counter>>

extraction == <<agg, page>>

----------------------------------------------------------------------------
(* Bounds of the model *)

MaxSeeds == 2       \* free seeds in a seed list
MaxLinks == 1       \* anchors walked per page
MaxBudget == 2      \* largest max_pages of a direct _crawl_site call
MaxCalls == 3        \* calls of generate_report
MaxClock == 2       \* ticks of the report service's clock
MaxCapPages == 5    \* pages of a crawl whose pages overfill the stored lists
MaxJobs == 1        \* jobs created
MaxTasks == 3       \* execution tasks created
MaxJobCalls == 5    \* calls of start_job, cancel_job and retry_job

----------------------------------------------------------------------------
(* Constants of the program *)

DEFAULT_MAX_PAGES == 60

Labels == {"contact", "team", "about", "pricing", "home", "blog", "other"}

\* PAGE_KEYWORDS, in declaration order (dict iteration order)
KeywordOrder == <<"contact", "team", "about", "pricing", "blog">>

PAGE_PRIORITY ==
    [contact |-> 0, team |-> 1, about |-> 2, pricing |-> 3,
     home |-> 4, blog |-> 5, other |-> 6]

TYPE_PAGE_LIMITS ==
    [contact |-> 5, team |-> 5, about |-> 4, pricing |-> 4,
     home |-> 3, blog |-> 8, other |-> 15]

----------------------------------------------------------------------------
(* URLs: what urlparse sees of them (scheme, netloc, path) and a query     *)
(* number q that tells URLs with the same path apart ("?p=q", 0: none).    *)

Url(scheme, netloc, path, q) ==
    [scheme |-> scheme, netloc |-> netloc, path |-> path, q |-> q]

Empty == Url("", "", "", 0)                 \* the empty string
None == Url("none", "", "", 0)              \* Python's None
Base == Url("http", "ex.com", "", 0)        \* http://ex.com
Root == Url("http", "ex.com", "/", 0)       \* http://ex.com/
Contact1 == Url("http", "ex.com", "/contact", 0)
Contact2 == Url("http", "ex.com", "/blog/contact-tips", 0)
Blog1 == Url("http", "ex.com", "/blog", 0)
Team1 == Url("http", "ex.com", "/team", 0)
AssetUrl == Url("http", "ex.com", "/file.pdf", 0)
OffSite == Url("http", "other.com", "/contact", 0)
MailTo == Url("mailto", "", "info@ex.com", 0)
SitemapUrl == Url("http", "ex.com", "/sitemap.xml", 0)

\* The labels whose keyword list has a substring match in the lowercased path
PathKeywords(path) ==
    CASE path \in {"/contact", "/contacto"} -> {"contact"}
      [] path = "/blog/contact-tips" -> {"contact", "blog"}
      [] path = "/team" -> {"team"}
      [] path \in {"/about", "/nosotros", "/quienes-somos"} -> {"about"}
      [] path = "/pricing" -> {"pricing"}
      [] path = "/blog" -> {"blog"}
      [] OTHER -> {}

AssetPaths == {"/file.pdf"}

_page_priority(label) == PAGE_PRIORITY[label]

_classify_by_url(url) ==
    IF url.path \in {"", "/"} THEN "home"
    ELSE LET hits == {i \in DOMAIN KeywordOrder : KeywordOrder[i] \in PathKeywords(url.path)}
         IN  IF hits = {} THEN "other"
             ELSE KeywordOrder[CHOOSE i \in hits : \A j \in hits : i <= j]

_same_site(u, base) ==
    /\ u.scheme \in {"http", "https"}
    /\ u.netloc = base.netloc

_is_asset(u) == u.path \in AssetPaths

\* _norm: None for an empty, javascript: or data: href, else urljoin(base, href)
_norm(href, base) ==
    IF href.kind \in {"empty", "js"} THEN None
    ELSE IF href.kind = "rel"
         THEN Url(base.scheme, base.netloc, href.url.path, href.url.q)
         ELSE href.url

----------------------------------------------------------------------------
(* The inputs of a direct _crawl_site call *)

\* The URLs a free seed is drawn from
SeedCandidates == {Root, Contact1, Contact2, Blog1, AssetUrl, OffSite, Empty}

\* Path of the URLs of a run of same-label seeds
Stem ==
    [contact |-> "/contact", team |-> "/team", about |-> "/about",
     pricing |-> "/pricing", home |-> "/", blog |-> "/blog", other |-> "/page"]

\* cap + 1 distinct URLs of label L: http://ex.com<stem>?p=1 .. ?p=cap+1
SameLabelRun(L) ==
    [n \in 1..(TYPE_PAGE_LIMITS[L] + 1) |-> Url("http", "ex.com", Stem[L], n)]

SeqsUpTo(S, n) == UNION {[1..k -> S] : k \in 0..n}

Range(f) == {f[i] : i \in DOMAIN f}

\* Seed lists: up to MaxSeeds free seeds, or a run that fills one label's cap
\* followed by at most one free seed
SeedLists ==
    SeqsUpTo(SeedCandidates, MaxSeeds)
    \cup {SameLabelRun(L) \o t : L \in Labels, t \in SeqsUpTo(SeedCandidates, 1)}

\* The anchors a page may carry: href attributes as _norm receives them
Href(kind, url) == [kind |-> kind, url |-> url]

HrefCandidates ==
    {Href("abs", Contact1), Href("rel", Url("", "", "/blog", 0)), Href("abs", Root),
     Href("abs", MailTo), Href("js", Empty), Href("bad", Empty)}

\* The anchors of a page in content mode, fewer; a heavy page has one, which
\* _norm drops
Anchors ==
    CASE mode = "content" -> {Href("abs", Contact1), Href("bad", Empty)}
      [] mode = "caps" -> {Href("js", Empty)}
      [] OTHER -> HrefCandidates

NoEntry == [priority |-> -1, seq |-> -1, url |-> None, label |-> "none"]
NoSummary ==
    [pages_crawled |-> 0,
     contacts |-> [emails |-> {}, phones |-> <<>>, team_contacts |-> <<>>],
     forms_found |-> 0, forms_detailed |-> <<>>, cta_highlights |-> <<>>,
     business |-> [services |-> <<>>, addresses |-> <<>>]]
NoReturn == [returned |-> FALSE, pages_crawled |-> 0, site |-> NoSummary, pages |-> <<>>]
NoResult == [returned |-> FALSE, success |-> FALSE, error |-> "none",
             has_site |-> FALSE, pages_crawled |-> 0, pages |-> <<>>]
NoOffer == [n |-> 0, url |-> None, accepted |-> FALSE]

Event(url, what) == [url |-> url, what |-> what]

----------------------------------------------------------------------------
(* The frontier: enqueue and the heap *)

Entry(priority, seq, url, label) ==
    [priority |-> priority, seq |-> seq, url |-> url, label |-> label]

\* mutants of EntryBefore: the priority is left out of the heap key; the later
\* entry of a priority leaves first; the larger priority number leaves first
EntryBeforeFifo(e, f) == e.seq <= f.seq
EntryBeforeLifo(e, f) ==
    \/ e.priority < f.priority
    \/ e.priority = f.priority /\ e.seq >= f.seq
EntryBeforeReversed(e, f) ==
    \/ e.priority > f.priority
    \/ e.priority = f.priority /\ e.seq <= f.seq

\* tuple order of heapq: priority first, then the insertion sequence
EntryBefore(e, f) ==
    \/ e.priority < f.priority
    \/ e.priority = f.priority /\ e.seq <= f.seq

\* heapq.heappop: the smallest entry
HeapMin(q) == CHOOSE e \in q : \A f \in q : EntryBefore(e, f)

\* mutant of TypeLimit: the cap of the catch-all label follows the page budget
TypeLimitFromBudget(label) ==
    IF label = "other" THEN max_pages ELSE TYPE_PAGE_LIMITS[label]

TypeLimit(label) == TYPE_PAGE_LIMITS[label]

NotCrawlable(url) == url = Empty \/ _is_asset(url)

\* mutants of AlreadySeen: one of the two membership tests is missing
AlreadySeenIgnoresPending(url) == url \in visited
AlreadySeenIgnoresVisited(url) == url \in queued

AlreadySeen(url) == url \in visited \/ url \in queued

\* mutant of CapReached: the comparison is off by one
CapReachedOffByOne(label) == type_enqueued[label] > TypeLimit(label)

CapReached(label) == type_enqueued[label] >= TypeLimit(label)

EnqueueRejects(url) ==
    \/ NotCrawlable(url)
    \/ ~_same_site(url, base_url)
    \/ AlreadySeen(url)
    \/ CapReached(_classify_by_url(url))

Push(url, label) ==
    /\ type_enqueued' = [type_enqueued EXCEPT ![label] = @ + 1]
    /\ priority_queue' =
           priority_queue \cup {Entry(_page_priority(label), order_counter, url, label)}
    /\ order_counter' = order_counter + 1
    /\ queued' = queued \cup {url}
    /\ pushed' = Append(pushed, [url |-> url, label |-> label, at |-> pc,
                                 pops |-> Len(popped)])

enqueue(url) ==
    /\ offered' = [n |-> offered.n + 1, url |-> url, accepted |-> ~EnqueueRejects(url)]
    /\ IF EnqueueRejects(url)
       THEN UNCHANGED <<frontier, pushed>>
       ELSE Push(url, _classify_by_url(url))

----------------------------------------------------------------------------
(* What a rendered page holds, and the extractors of _crawl_site *)

MIN_PHONE_DIGITS == 8
MAX_PHONE_DIGITS == 15
MAX_FORMS_STORED == 80
MAX_CTA_HIGHLIGHTS == 60
MAX_TEAM_CONTACTS == 40

\* str.lower() on the e-mail strings of the model
Lower(s) ==
    CASE s \in {"Info@Ex.com", "INFO@EX.COM", "info@ex.com"} -> "info@ex.com"
      [] s \in {"Bob@Ex.com", "bob@ex.com"} -> "bob@ex.com"
      [] s = "Bob@Ex.com " -> "bob@ex.com "
      [] OTHER -> s

\* str.strip(): the one string of the model with outer blanks
Strip(s) == IF s = "Bob@Ex.com " THEN "Bob@Ex.com" ELSE s

\* A phone candidate: the raw string, the number of digits in it, whether
\* they are all zeros, and what the phonenumbers library makes of it
\* (possible: it parses to a possible number; its E.164 and international forms)
Phone(raw, digits, zeros, possible, e164, international) ==
    [raw |-> raw, digits |-> digits, zeros |-> zeros, possible |-> possible,
     e164 |-> e164, international |-> international]

PhoneA == Phone("+54 11 4321-1234", 12, FALSE, TRUE, "+541143211234", "+54 11 4321-1234")
PhoneB == Phone("011 4321-1234", 11, FALSE, TRUE, "+541143211234", "+54 11 4321-1234")
PhoneExt == Phone("+54 11 4321-1234 ext. 5", 13, FALSE, TRUE,
                  "+541143211234", "+54 11 4321-1234 ext. 5")
PhoneShort == Phone("1-2-3-4-5-6", 6, FALSE, TRUE, "+54123456", "+54 123456")
PhoneFive == Phone("12345", 5, FALSE, TRUE, "+5412345", "+54 12345")
NoPhone == Phone("", 0, FALSE, FALSE, "none", "none")

NoNumber == [e164 |-> "none", display |-> "none"]

_normalize_phone(ph) ==
    IF ph.raw = "" THEN NoNumber
    ELSE IF ph.digits < MIN_PHONE_DIGITS \/ ph.digits > MAX_PHONE_DIGITS THEN NoNumber
    ELSE IF ph.zeros THEN NoNumber
    ELSE IF ~ph.possible THEN NoNumber
    ELSE [e164 |-> ph.e164, display |-> ph.international]

\* JSON values of a Person node: a string, a number or absent
JStr(v) == [type |-> "str", val |-> v]
JNum(v) == [type |-> "num", val |-> v]
JNull(v) == [type |-> "null", val |-> v]

\* node.get("contactPoint"): absent, one object or a list of objects
ContactPoint(email, telephone) == [email |-> email, telephone |-> telephone]
NoContactPoint == [kind |-> "none", items |-> <<>>]
OneContactPoint(cp) == [kind |-> "dict", items |-> <<cp>>]
ContactPointList(cps) == [kind |-> "list", items |-> cps]

Person(name, email, telephone) ==
    [name |-> name, email |-> email, telephone |-> telephone,
     contactPoint |-> NoContactPoint]

WithContactPoint(node, contact_point) == [node EXCEPT !.contactPoint = contact_point]

\* A script[type="application/ld+json"] block: text json.loads rejects, or a
\* JSON array of Person nodes
Unparsable == [kind |-> "unparsable", nodes |-> <<>>]
JsonArray(nodes) == [kind |-> "json", nodes |-> nodes]

Ann == Person("Ann", JStr("INFO@EX.COM"), JNull(NoPhone))
Bob == Person("Bob", JStr("Bob@Ex.com "), JStr(PhoneExt))
Cid == Person("Cid", JNum(""), JNull(NoPhone))
Dan == Person("Dan", JNull(""), JStr(PhoneFive))
Eve == Person("Eve", JStr("bob@ex.com"), JNum(NoPhone))
Fay == WithContactPoint(Person("Fay", JNull(""), JNull(NoPhone)),
                        OneContactPoint(ContactPoint(JStr("fay@ex.com"), JStr(PhoneA))))
Gus == WithContactPoint(Person("Gus", JStr("gus@ex.com"), JNull(NoPhone)),
                        ContactPointList(<<ContactPoint(JNull(""), JNull(NoPhone)),
                                           ContactPoint(JStr("sales@ex.com"), JStr(PhoneA))>>))

\* What innerText holds: the EMAIL_RE matches, the PHONE_RE matches and the
\* sentences _sentences_with_keywords keeps for SERVICE_KEYWORDS and for
\* ADDRESS_KEYWORDS
Text(emails, phones, sentences, addresses) ==
    [emails |-> emails, phones |-> phones, sentences |-> sentences,
     addresses |-> addresses]

BlankText == Text({}, {}, <<>>, <<>>)

Cta(text, href, visible) == [text |-> text, href |-> href, visible |-> visible]

\* page_struct: the number of forms and the a/button elements
Struct(forms, ctas) == [forms |-> forms, ctas |-> ctas]

BlankStruct == Struct(0, <<>>)

\* What a page shows: its text and its forms and buttons
Bodies ==
    {[text |-> BlankText, struct |-> BlankStruct],
     [text |-> Text({"Info@Ex.com"}, {PhoneA}, <<"We offer web services">>,
                    <<"Our office is at 1 Main St">>),
      struct |-> Struct(1, <<Cta("Contact us", "/contact", TRUE), Cta("Home", "/", TRUE)>>)],
     [text |-> Text({"info@ex.com", "INFO@EX.COM"}, {PhoneB, PhoneShort}, <<>>, <<>>),
      struct |-> BlankStruct]}

LdLists ==
    {<<>>, <<Unparsable>>, <<JsonArray(<<Bob>>)>>, <<JsonArray(<<Cid, Ann>>)>>,
     <<JsonArray(<<Dan>>)>>, <<JsonArray(<<Eve>>)>>, <<JsonArray(<<Gus, Fay>>)>>}

Content(text, struct, ld) == [text |-> text, struct |-> struct, ld |-> ld]

BlankPage == Content(BlankText, BlankStruct, <<>>)

PageContents == {Content(b.text, b.struct, l) : b \in Bodies, l \in LdLists}

\* A page that holds more of everything than one page may add to a stored
\* list, with repeats: the sentences, buttons and people carry the page number
\* of the URL, the first sentence of each kind is the same on every page
Numbered(stem, url, n) ==
    [i \in 1..n |-> stem \o ToString(url.q) \o "-" \o ToString(i)]

HeavyPage(url) ==
    LET ctas == [i \in 1..25 |-> Cta("Contact us", Numbered("/c", url, 25)[i], TRUE)]
        names == Numbered("P", url, 15)
        people == [i \in 1..15 |-> Person(names[i], JNull(""), JNull(NoPhone))]
    IN  Content(Text({}, {}, <<"Our services">> \o Numbered("services ", url, 6),
                     <<"Our address">> \o Numbered("address ", url, 6)),
                Struct(30, ctas \o <<ctas[1]>>),
                <<JsonArray(people \o <<people[1]>>)>>)

\* The pages the renderer may return: blank ones, except in content mode and
\* in the crawl of heavy pages
Contents ==
    CASE mode = "content" -> PageContents
      [] mode = "caps" -> {HeavyPage(cur.url)}
      [] OTHER -> {BlankPage}

_looks_like_cta(text) == text \in {"Contact us"}

\* _iter_ld_nodes: nothing for unparsable text; the nodes leave the stack last
\* in, first out
_iter_ld_nodes(raw) ==
    IF raw.kind = "unparsable" THEN <<>>
    ELSE [i \in 1..Len(raw.nodes) |-> raw.nodes[Len(raw.nodes) + 1 - i]]

\* Python's truth test of a JSON value: None is false
Truthy(j) == j.type # "null"

\* dict.setdefault: the value is stored only under a key the dict lacks
DictSetDefault(d, key, value) ==
    IF key \in DOMAIN d THEN d ELSE d @@ (key :> value)

\* lines 276-284: person.setdefault over the contact points, in order
RECURSIVE FromContactPoints(_, _)
FromContactPoints(person, cps) ==
    IF cps = <<>> THEN person
    ELSE FromContactPoints(
             DictSetDefault(DictSetDefault(person, "email", Head(cps).email),
                            "phone", Head(cps).telephone),
             Tail(cps))

\* lines 268-297: the person of one Person node
SchemaPerson(node, page_url) ==
    LET person == [name |-> JStr(node.name), email |-> JNull(""),
                   phone |-> JNull(NoPhone), source |-> JStr(page_url)]
        p1 == FromContactPoints(person, node.contactPoint.items)
        p2 == IF Truthy(node.email) /\ ~Truthy(p1.email)
              THEN [p1 EXCEPT !.email = node.email] ELSE p1
        p3 == IF Truthy(node.telephone) /\ ~Truthy(p2.phone)
              THEN [p2 EXCEPT !.phone = node.telephone] ELSE p2
    IN  [name |-> p3.name.val, email |-> p3.email, phone |-> p3.phone,
         source |-> p3.source.val]

RECURSIVE _extract_schema_people(_, _)
_extract_schema_people(ld_json_list, page_url) ==
    IF ld_json_list = <<>> THEN <<>>
    ELSE LET nodes == _iter_ld_nodes(Head(ld_json_list))
         IN  [i \in 1..Len(nodes) |-> SchemaPerson(nodes[i], page_url)]
             \o _extract_schema_people(Tail(ld_json_list), page_url)

\* The first occurrence of every value, in order
RECURSIVE KeepFirst(_, _)
KeepFirst(items, seen) ==
    IF items = <<>> THEN <<>>
    ELSE IF Head(items) \in seen THEN KeepFirst(Tail(items), seen)
         ELSE <<Head(items)>> \o KeepFirst(Tail(items), seen \cup {Head(items)})

_dedupe_list(values) == KeepFirst(values, {})

\* The items at the indexes idx within lo..hi, in order; the range is halved
\* so that the evaluation stays shallow on the long lists of a whole crawl
RECURSIVE PickRange(_, _, _, _)
PickRange(items, idx, lo, hi) ==
    IF lo > hi THEN <<>>
    ELSE IF lo = hi THEN (IF lo \in idx THEN <<items[lo]>> ELSE <<>>)
    ELSE LET mid == (lo + hi) \div 2
         IN  PickRange(items, idx, lo, mid) \o PickRange(items, idx, mid + 1, hi)

\* The items at the indexes idx from i on, in order
Pick(items, idx, i) == PickRange(items, idx, i, Len(items))

\* _dedupe_dicts: the first item of every key; keys[i] is the key of items[i]
_dedupe_dicts(items, keys) ==
    Pick(items, {i \in DOMAIN items : \A j \in 1..(i - 1) : keys[j] # keys[i]}, 1)

Take(sq, n) == IF Len(sq) <= n THEN sq ELSE SubSeq(sq, 1, n)

\* The aggregates _crawl_site keeps while it runs
NoAggregates ==
    [contact_emails |-> {}, phones_by_e164 |-> {}, forms_total_count |-> 0,
     forms_detailed |-> <<>>, cta_highlights |-> <<>>, team_contacts |-> <<>>,
     business_summary |-> [services |-> <<>>, addresses |-> <<>>]]

\* The locals of one iteration: the page as it was read (text, page_struct,
\* ld_json) and what the snapshot takes from the extractors
NoPage ==
    [content |-> BlankPage, page_emails |-> {}, page_normalized_phones |-> {},
     ld_json |-> <<>>, forms_count |-> 0, page_team_contacts |-> <<>>]

\* mutant of SetDefault: a later display form replaces the stored one
SetDefaultOverwrites(d, key, value) ==
    {p \in d : p.e164 # key} \cup {[e164 |-> key, display |-> value]}

\* dict.setdefault on phones_by_e164, a dict held as its set of items
SetDefault(d, key, value) ==
    IF \E p \in d : p.e164 = key THEN d
    ELSE d \cup {[e164 |-> key, display |-> value]}

\* for ph in page_phone_matches: ... phones_by_e164.setdefault(e164, display)
RECURSIVE MergePhones(_, _)
MergePhones(d, phones) ==
    IF phones = {} THEN d
    ELSE LET ph == CHOOSE x \in phones : TRUE
             n == _normalize_phone(ph)
         IN  MergePhones(IF n = NoNumber THEN d ELSE SetDefault(d, n.e164, n.display),
                         phones \ {ph})

\* mutant of LowerAll: the matches are kept as they are written
LowerAllKeepsCase(emails) == emails

\* {e.lower() for e in EMAIL_RE.findall(text)}
LowerAll(emails) == {Lower(e) : e \in emails}

\* lines 707-718: e-mails and phones of the page text
MergeText(a, text) ==
    [a EXCEPT !.contact_emails = @ \cup LowerAll(text.emails),
              !.phones_by_e164 = MergePhones(@, text.phones)]

Highlights(ctas, url) ==
    LET kept == SelectSeq(ctas, LAMBDA c : c.visible /\ _looks_like_cta(c.text))
    IN  [i \in 1..Len(kept) |-> [text |-> kept[i].text, href |-> kept[i].href, page |-> url]]

\* lines 814-844: forms and CTA highlights
MergeStruct(a, struct, url) ==
    [a EXCEPT !.forms_total_count = @ + struct.forms,
              !.forms_detailed = @ \o [i \in 1..struct.forms |-> [page |-> url, id |-> i]],
              !.cta_highlights = @ \o Highlights(struct.ctas, url)]

\* One person of lines 872-901; raised: email.strip() or re.sub met a value
\* that is not a string
MergePerson(a, person) ==
    LET has_email == person.email.type # "null"
        has_phone == person.phone.type # "null"
        email == Strip(person.email.val)
        a1 == IF has_email
              THEN [a EXCEPT !.contact_emails = @ \cup {Lower(email)}]
              ELSE a
        n == _normalize_phone(person.phone.val)
        a2 == IF has_phone /\ n # NoNumber
              THEN [a1 EXCEPT !.phones_by_e164 = SetDefault(@, n.e164, n.display)]
              ELSE a1
        team_entry ==
            [name |-> person.name,
             email |-> IF has_email THEN email ELSE "none",
             phone |-> IF ~has_phone THEN "none"
                       ELSE IF n # NoNumber THEN n.display ELSE person.phone.val.raw,
             phone_e164 |-> IF has_phone THEN n.e164 ELSE "none",
             source |-> person.source]
    IN  IF has_email /\ person.email.type = "num" THEN [agg |-> a, raised |-> TRUE]
        ELSE IF has_phone /\ person.phone.type = "num" THEN [agg |-> a1, raised |-> TRUE]
        ELSE [agg |-> [a2 EXCEPT !.team_contacts = Append(@, team_entry)],
              raised |-> FALSE]

\* for person in schema_people: ..., up to the person that raises
RECURSIVE MergePeople(_, _)
MergePeople(a, people) ==
    IF people = <<>> THEN [agg |-> a, raised |-> FALSE]
    ELSE LET r == MergePerson(a, Head(people))
         IN  IF r.raised THEN r ELSE MergePeople(r.agg, Tail(people))

\* The categories of business_summary the model follows
BusinessKeys == {"services", "addresses"}

\* _extract_business_signals: the first five sentences of each category
_extract_business_signals(text) ==
    [services |-> Take(text.sentences, 5), addresses |-> Take(text.addresses, 5)]

\* mutant of _merge_business_info: the lists are cut only when the crawl ends
_merge_business_info_uncut(target, new_info) ==
    [key \in BusinessKeys |->
        IF new_info[key] = <<>> THEN target[key]
        ELSE _dedupe_list(target[key] \o new_info[key])]

\* _merge_business_info
_merge_business_info(target, new_info) ==
    [key \in BusinessKeys |->
        IF new_info[key] = <<>> THEN target[key]
        ELSE Take(_dedupe_list(target[key] \o new_info[key]),
                  IF key = "addresses" THEN 20 ELSE 15)]

\* The stages of the try body at which the renderer may raise: on reading the
\* page (lines 700-701), on the anchors and forms (720, 733), on the scripts
\* and JSON-LD blocks (852, 867)
RenderStages == {"text", "struct", "scripts"}

\* The JSON-LD of the page makes the person loop raise
LdRaises(content, url) ==
    MergePeople(NoAggregates, _extract_schema_people(content.ld, url)).raised

\* The aggregates after the try body ran up to a stage
MergeUpTo(a, content, url, stage) ==
    LET a1 == MergeText(a, content.text)
        a2 == MergeStruct(a1, content.struct, url)
        a3 == MergePeople(a2, _extract_schema_people(content.ld, url)).agg
        a4 == [a3 EXCEPT !.business_summary =
                             _merge_business_info(@, _extract_business_signals(content.text))]
    IN  CASE stage = "text" -> a
          [] stage = "struct" -> a1
          [] stage = "scripts" -> a2
          [] stage = "person" -> a3
          [] OTHER -> a4

\* mutant of PageLocals: the page itself is counted as a form
PageLocalsMiscount(content, url) ==
    [content |-> content,
     page_emails |-> LowerAll(content.text.emails),
     page_normalized_phones |->
         {_normalize_phone(ph).display : ph \in content.text.phones} \ {NoNumber.display},
     ld_json |-> content.ld,
     forms_count |-> content.struct.forms + 1,
     page_team_contacts |->
         MergePeople(NoAggregates,
                     _extract_schema_people(content.ld, url)).agg.team_contacts]

\* The locals of an iteration whose extractors all ran
PageLocals(content, url) ==
    [content |-> content,
     page_emails |-> LowerAll(content.text.emails),
     page_normalized_phones |->
         {_normalize_phone(ph).display : ph \in content.text.phones} \ {NoNumber.display},
     ld_json |-> content.ld,
     forms_count |-> content.struct.forms,
     page_team_contacts |->
         MergePeople(NoAggregates,
                     _extract_schema_people(content.ld, url)).agg.team_contacts]

----------------------------------------------------------------------------
(* ReportGenerationService: the tables and the cache *)

\* (report_id, type) pairs of the reports that exist
ReportKeys == {<<1, "technical">>, <<1, "commercial">>}

\* settings.report_generation_cache_ttl_minutes, in ticks of the clock
CacheTtls == {0, 1}

NoRet == [key |-> <<0, "none">>, cached |-> FALSE, markdown |-> 0, raised |-> FALSE]
NoAsk == [n |-> 0, key |-> <<0, "none">>, force_refresh |-> FALSE]

\* logs: ReportGenerationLog rows in insertion order; generated: the
\* GeneratedReport row of each key (markdown 0: no row); pending: the calls
\* waiting for the provider; asked, ret: the last call started and the last
\* call that ended. The markdown of the n-th provider call is n.
NoReports ==
    [ttl |-> 0, clock |-> 0, logs |-> <<>>,
     generated |-> [k \in ReportKeys |-> 0],
     provider_calls |-> 0, pending |-> {}, asked |-> NoAsk, ret |-> NoRet]

LogRow(key, status, created_at, markdown) ==
    [key |-> key, status |-> status, created_at |-> created_at, markdown_output |-> markdown]

\* mutant of CacheRows: the cutoff is not applied
CacheRowsAnyAge(rs, key) ==
    {i \in DOMAIN rs.logs :
        /\ rs.logs[i].key = key
        /\ rs.logs[i].status = "success"
        /\ rs.logs[i].markdown_output # 0}

\* the filter of _cache_lookup
CacheRows(rs, key) ==
    {i \in DOMAIN rs.logs :
        /\ rs.logs[i].key = key
        /\ rs.logs[i].status = "success"
        /\ rs.logs[i].created_at >= rs.clock - rs.ttl
        /\ rs.logs[i].markdown_output # 0}

\* _cache_lookup: the rows .order_by(created_at.desc()).first() may return
_cache_lookup(rs, key) ==
    IF rs.ttl <= 0 THEN {}
    ELSE {i \in CacheRows(rs, key) :
             \A j \in CacheRows(rs, key) : rs.logs[j].created_at <= rs.logs[i].created_at}

----------------------------------------------------------------------------
(* JobService: the jobs and job_steps tables, _running_jobs and the tasks *)

\* A row of jobs; the timestamps are readings of a clock that every
\* datetime.utcnow() moves on (0: None)
JobRow(job_type, total_steps) ==
    [job_type |-> job_type, status |-> "pending", started_at |-> 0, completed_at |-> 0,
     error_message |-> FALSE, result_summary |-> FALSE, total_steps |-> total_steps,
     completed_steps |-> 0, failed_steps |-> 0]

\* A row of job_steps
StepRow(job_id, step_number) ==
    [job_id |-> job_id, step_number |-> step_number, status |-> "pending",
     started_at |-> 0, completed_at |-> 0, error_message |-> FALSE,
     result_data |-> FALSE]

\* An execute_job task: where its coroutine stands ("created": not yet run;
\* "scrap_domain": at the await; "done"; "cancelled"), whether cancel() was
\* called on it, and the step row it created
Task(job_id) == [job_id |-> job_id, at |-> "created", must_cancel |-> FALSE, step |-> 0]

\* The ids the service is called with: those of the jobs and one unknown id
JobIds == 1..(MaxJobs + 1)

NoCall == [op |-> "none", job_id |-> 0, ret |-> "none"]

\* jobs[id], steps[id]: the rows by primary key; _running_jobs: 0 for a
\* missing key; tasks: every task created, by creation order; calls and last:
\* the number of start/cancel/retry calls and the last call with what it returned
NoJobs ==
    [jobs |-> <<>>, steps |-> <<>>, _running_jobs |-> [j \in JobIds |-> 0],
     tasks |-> <<>>, now |-> 0, calls |-> 0, last |-> NoCall]

\* db.query(Job).filter(Job.id == job_id).first() finds a row
JobExists(js, job_id) == job_id \in DOMAIN js.jobs

\* not task.done()
Unfinished(task) == task.at \in {"created", "scrap_domain"}

\* is_job_running: bool(task and not task.done())
is_job_running(js, job_id) ==
    /\ js._running_jobs[job_id] # 0
    /\ Unfinished(js.tasks[js._running_jobs[job_id]])

\* the steps of a job, as indexes of job_steps
StepsOf(js, job_id) == {i \in DOMAIN js.steps : js.steps[i].job_id = job_id}

----------------------------------------------------------------------------
(* _crawl_site *)

InitCrawl ==
    /\ mode = "crawl"
    /\ site = {}
    /\ max_pages \in 1..MaxBudget
    /\ base_url = Base
    /\ pc = "seeding"
    /\ seeds \in SeedLists
    /\ visited = {}
    /\ queued = {}
    /\ priority_queue = {}
    /\ type_enqueued = [L \in Labels |-> 0]
    /\ order_counter = 0
    /\ cur = NoEntry
    /\ links_seen = 0
    /\ pages_data = <<>>
    /\ agg = NoAggregates
    /\ page = NoPage
    /\ crawl_ret = NoReturn
    /\ response = "pending"
    /\ result = NoResult
    /\ pushed = <<>>
    /\ popped = <<>>
    /\ offered = NoOffer
    /\ events = {}
    /\ reports = NoReports
    /\ jobs = NoJobs

\* for seed in seeds: enqueue(seed)
SeedStep ==
    /\ pc = "seeding"
    /\ seeds # <<>>
    /\ enqueue(Head(seeds))
    /\ seeds' = Tail(seeds)
    /\ UNCHANGED <<reports, jobs, params, extraction, pc, visited, cur, links_seen,
                   pages_data, crawl_ret, response, result, popped, events>>

\* mutant of FallbackNeeded: the root is never force-enqueued
FallbackNeededNever == FALSE

\* if not priority_queue:
FallbackNeeded == priority_queue = {}

\* if not priority_queue: enqueue(base_url)
SeedFallback ==
    /\ pc = "seeding"
    /\ seeds = <<>>
    /\ IF FallbackNeeded
       THEN enqueue(base_url)
       ELSE UNCHANGED <<frontier, pushed, offered>>
    /\ pc' = "loop"
    /\ UNCHANGED <<reports, jobs, params, extraction, seeds, visited, cur, links_seen,
                   pages_data, crawl_ret, response, result, popped, events>>

\* mutants of LoopCondition: the budget test is missing; the loop stops one
\* page short of the budget
LoopConditionNoBudget == priority_queue # {}
LoopConditionOnePageShort ==
    priority_queue # {} /\ Cardinality(visited) + 1 < max_pages

\* while priority_queue and len(visited) < max_pages
LoopCondition == priority_queue # {} /\ Cardinality(visited) < max_pages

\* heappop, the visited bookkeeping and context.new_page()
Pop(opens) ==
    /\ pc = "loop"
    /\ LoopCondition
    /\ LET e == HeapMin(priority_queue)
       IN  /\ priority_queue' = priority_queue \ {e}
           /\ popped' = Append(popped, e.url)
           /\ IF e.url \in visited
              THEN \* if url in visited: continue
                   /\ pc' = "loop"
                   /\ UNCHANGED <<queued, visited, cur, events>>
              ELSE /\ queued' = queued \ {e.url}
                   /\ visited' = visited \cup {e.url}
                   /\ cur' = e
                   /\ pc' = IF opens THEN "nav" ELSE "raised"
                   /\ events' = IF opens THEN events
                                ELSE events \cup {Event(e.url, "open_raised")}
    /\ links_seen' = 0
    /\ UNCHANGED <<reports, jobs, params, extraction, seeds, type_enqueued, order_counter,
                   pages_data, crawl_ret, response, result, pushed, offered>>

Dequeue == Pop(TRUE)

\* context.new_page() raises: outside the try, the exception leaves _crawl_site
DequeueOpenFails == Pop(FALSE)

NavOutcomes == {"ok", "not_ok", "no_response", "raises"}

\* What the site answers: free in a direct call, fixed by the site in domain
\* mode, in the crawl of heavy pages and in the crawl that fills every label
Answers(url, o) ==
    \/ mode \notin {"domain", "caps", "full"}
    \/ (o = "ok") <=> (url \in site)

\* mutants of AfterNavigation: a failed load aborts the crawl; a failed load is
\* not noticed and the extractors run
AfterNavigationAborts(o) == IF o = "ok" THEN "extract" ELSE "raised"
AfterNavigationFallsThrough(o) == "extract"

\* if not resp or not resp.ok: continue (to the finally); else the extractors
AfterNavigation(o) == IF o = "ok" THEN "extract" ELSE "close"

\* resp = await p.goto(url, ...): an exception, no response or a non-OK response
\* all leave the page to the finally
Navigate(o) ==
    /\ pc = "nav"
    /\ Answers(cur.url, o)
    /\ pc' = AfterNavigation(o)
    /\ events' = events \cup {Event(cur.url, IF o = "ok" THEN "loaded" ELSE "load_failed")}
    /\ UNCHANGED <<reports, jobs, params, extraction, seeds, visited, queued, priority_queue,
                   type_enqueued, order_counter, cur, links_seen, pages_data, crawl_ret,
                   response, result, pushed, popped, offered>>

\* the extractors run and return; the link loop starts
ExtractPage(content) ==
    /\ pc = "extract"
    /\ ~LdRaises(content, cur.url)
    /\ agg' = MergeUpTo(agg, content, cur.url, "all")
    /\ page' = PageLocals(content, cur.url)
    /\ pc' = "links"
    /\ UNCHANGED <<reports, jobs, params, seeds, visited, queued, priority_queue,
                   type_enqueued, order_counter, cur, links_seen, pages_data, crawl_ret,
                   response, result, pushed, popped, offered, events>>

\* an extractor raises at a stage, the renderer's or the person loop's:
\* except Exception: pass
ExtractRaises(content, stage) ==
    /\ pc = "extract"
    /\ stage = "person" => LdRaises(content, cur.url)
    /\ agg' = MergeUpTo(agg, content, cur.url, stage)
    /\ page' = NoPage
    /\ pc' = "close"
    /\ events' = events \cup {Event(cur.url, "threw")}
                         \cup (IF stage = "person" THEN {Event(cur.url, "jsonld_raised")}
                               ELSE {})
    /\ UNCHANGED <<reports, jobs, params, seeds, visited, queued, priority_queue,
                   type_enqueued, order_counter, cur, links_seen, pages_data, crawl_ret,
                   response, result, pushed, popped, offered>>

\* for href in hrefs: u = _norm(href, url); if not u: continue; enqueue(u)
LinkStep(href) ==
    /\ pc = "links"
    /\ links_seen < MaxLinks
    /\ links_seen' = links_seen + 1
    /\ events' = events \cup {Event(cur.url, IF href.kind = "bad" THEN "threw" ELSE "anchor")}
    /\ IF href.kind = "bad"
       THEN \* urljoin raises ValueError: except Exception: pass
            /\ pc' = "close"
            /\ UNCHANGED <<frontier, pushed, offered>>
       ELSE /\ pc' = "links"
            /\ IF _norm(href, cur.url) \in {None, Empty}
               THEN UNCHANGED <<frontier, pushed, offered>>
               ELSE enqueue(_norm(href, cur.url))
    /\ UNCHANGED <<reports, jobs, params, extraction, seeds, visited, cur,
                   pages_data, crawl_ret, response, result, popped>>

\* sq[-n:]
LastN(sq, n) == IF Len(sq) <= n THEN sq ELSE SubSeq(sq, Len(sq) - n + 1, Len(sq))

PageSnapshot(e) ==
    [url |-> e.url, seed_type |-> e.label,
     emails_found |-> page.page_emails,
     phones_found |-> page.page_normalized_phones,
     jsonld_raw |-> Take(page.ld_json, 5),
     forms_count |-> page.forms_count,
     team_contacts |-> Take(page.page_team_contacts, 3),
     cta_sample |-> LastN(agg.cta_highlights, 3)]

\* pages_data.append({...})
Snapshot ==
    /\ pc = "links"
    /\ pages_data' = Append(pages_data, PageSnapshot(cur))
    /\ pc' = "close"
    /\ UNCHANGED <<reports, jobs, params, extraction, seeds, visited, queued, priority_queue,
                   type_enqueued, order_counter, cur, links_seen, crawl_ret,
                   response, result, pushed, popped, offered, events>>

\* finally: await p.close()
ClosePage(closes) ==
    /\ pc = "close"
    /\ pc' = IF closes THEN "loop" ELSE "raised"
    /\ events' = IF closes THEN events ELSE events \cup {Event(cur.url, "close_raised")}
    /\ page' = NoPage
    /\ UNCHANGED <<reports, jobs, params, agg, seeds, visited, queued, priority_queue,
                   type_enqueued, order_counter, cur, links_seen, pages_data, crawl_ret,
                   response, result, pushed, popped, offered>>

\* sorted(phones_by_e164.values()): a list with one element per key; the
\* values in a fixed order of the keys stand for the sorted list
RECURSIVE Values(_)
Values(d) ==
    IF d = {} THEN <<>>
    ELSE LET p == CHOOSE x \in d : TRUE
         IN  <<p.display>> \o Values(d \ {p})

TeamKeys(items) ==
    [i \in DOMAIN items |-> <<items[i].name, items[i].email, items[i].phone, items[i].source>>]

CtaKeys(items) ==
    [i \in DOMAIN items |-> <<items[i].text, items[i].href, items[i].page>>]

\* mutant of PagesCrawled: only the pages that gave a snapshot are counted
PagesCrawledSnapshots == Len(pages_data)

\* "pages_crawled": len(visited)
PagesCrawled == Cardinality(visited)

\* lines 942-983: the collected data deduplicated and capped
SiteSummary ==
    [pages_crawled |-> PagesCrawled,
     contacts |->
         [emails |-> agg.contact_emails,
          phones |-> Values(agg.phones_by_e164),
          team_contacts |-> Take(_dedupe_dicts(agg.team_contacts, TeamKeys(agg.team_contacts)),
                                 MAX_TEAM_CONTACTS)],
     forms_found |-> agg.forms_total_count,
     forms_detailed |-> Take(agg.forms_detailed, MAX_FORMS_STORED),
     cta_highlights |-> Take(_dedupe_dicts(agg.cta_highlights, CtaKeys(agg.cta_highlights)),
                             MAX_CTA_HIGHLIGHTS),
     business |-> [key \in BusinessKeys |-> _dedupe_list(agg.business_summary[key])]]

\* the loop ends: return site_summary, pages_data
Finish ==
    /\ pc = "loop"
    /\ ~LoopCondition
    /\ crawl_ret' = [returned |-> TRUE, pages_crawled |-> SiteSummary.pages_crawled,
                     site |-> SiteSummary, pages |-> pages_data]
    /\ pc' = "returned"
    /\ UNCHANGED <<reports, jobs, params, extraction, seeds, visited, queued, priority_queue,
                   type_enqueued, order_counter, cur, links_seen, pages_data,
                   response, result, pushed, popped, offered, events>>

Next ==
    \/ SeedStep
    \/ SeedFallback
    \/ Dequeue
    \/ DequeueOpenFails
    \/ \E o \in NavOutcomes : Navigate(o)
    \/ \E c \in Contents : ExtractPage(c)
    \/ \E c \in Contents, stage \in RenderStages \cup {"person"} : ExtractRaises(c, stage)
    \/ \E h \in Anchors : LinkStep(h)
    \/ Snapshot
    \/ \E closes \in BOOLEAN : ClosePage(closes)
    \/ Finish

Init == InitCrawl

Spec == Init /\ [][Next]_vars

\* The call keeps running: every await returns, raises or times out
\* Its seed lists are the free ones and the runs of same-label seeds
InitLive ==
    /\ InitCrawl
    /\ seeds \in SeqsUpTo(SeedCandidates, MaxSeeds) \cup {SameLabelRun(L) : L \in Labels}

SpecLive == InitLive /\ [][Next]_vars /\ WF_vars(Next)

\* A direct call whose pages carry text, forms and JSON-LD blocks
ContentSeedLists == SeqsUpTo({Root, Contact1}, MaxSeeds)

InitContent ==
    /\ mode = "content"
    /\ site = {}
    /\ max_pages \in 1..MaxBudget
    /\ base_url = Base
    /\ pc = "seeding"
    /\ seeds \in ContentSeedLists
    /\ visited = {}
    /\ queued = {}
    /\ priority_queue = {}
    /\ type_enqueued = [L \in Labels |-> 0]
    /\ order_counter = 0
    /\ cur = NoEntry
    /\ links_seen = 0
    /\ pages_data = <<>>
    /\ agg = NoAggregates
    /\ page = NoPage
    /\ crawl_ret = NoReturn
    /\ response = "pending"
    /\ result = NoResult
    /\ pushed = <<>>
    /\ popped = <<>>
    /\ offered = NoOffer
    /\ events = {}
    /\ reports = NoReports
    /\ jobs = NoJobs

SpecContent == InitContent /\ [][Next]_vars

\* A direct call over MaxCapPages pages that all load and hold a heavy page
InitCaps ==
    /\ mode = "caps"
    /\ site = Range(SubSeq(SameLabelRun("other"), 1, MaxCapPages))
    /\ max_pages = MaxCapPages
    /\ base_url = Base
    /\ pc = "seeding"
    /\ seeds = SubSeq(SameLabelRun("other"), 1, MaxCapPages)
    /\ visited = {}
    /\ queued = {}
    /\ priority_queue = {}
    /\ type_enqueued = [L \in Labels |-> 0]
    /\ order_counter = 0
    /\ cur = NoEntry
    /\ links_seen = 0
    /\ pages_data = <<>>
    /\ agg = NoAggregates
    /\ page = NoPage
    /\ crawl_ret = NoReturn
    /\ response = "pending"
    /\ result = NoResult
    /\ pushed = <<>>
    /\ popped = <<>>
    /\ offered = NoOffer
    /\ events = {}
    /\ reports = NoReports
    /\ jobs = NoJobs

SpecCaps == InitCaps /\ [][Next]_vars

\* Seeds that overfill every label: cap + 1 URLs of each, the home ones first
EveryLabelRun ==
    SameLabelRun("home") \o SameLabelRun("contact") \o SameLabelRun("team")
    \o SameLabelRun("about") \o SameLabelRun("pricing") \o SameLabelRun("blog")
    \o SameLabelRun("other")

\* A direct call with those seeds, a budget below the number of contact seeds
\* or the default one, on a site where two pages load
InitFull ==
    /\ mode = "full"
    /\ site = {SameLabelRun("contact")[1], SameLabelRun("home")[1]}
    /\ max_pages \in {MaxBudget, DEFAULT_MAX_PAGES}
    /\ base_url = Base
    /\ pc = "seeding"
    /\ seeds = EveryLabelRun
    /\ visited = {}
    /\ queued = {}
    /\ priority_queue = {}
    /\ type_enqueued = [L \in Labels |-> 0]
    /\ order_counter = 0
    /\ cur = NoEntry
    /\ links_seen = 0
    /\ pages_data = <<>>
    /\ agg = NoAggregates
    /\ page = NoPage
    /\ crawl_ret = NoReturn
    /\ response = "pending"
    /\ result = NoResult
    /\ pushed = <<>>
    /\ popped = <<>>
    /\ offered = NoOffer
    /\ events = {}
    /\ reports = NoReports
    /\ jobs = NoJobs

SpecFull == InitFull /\ [][Next]_vars

----------------------------------------------------------------------------
(* scrap_domain and _discover_seeds *)

Page(path) == Url("http", "ex.com", path, 0)

About1 == Page("/about")
RobotsUrl == Page("/robots.txt")

\* hints of _discover_seeds, each joined to the root
Hints ==
    <<Page("/contacto"), Page("/contact"), Page("/about"), Page("/nosotros"),
      Page("/quienes-somos"), Page("/privacy-policy"), Page("/politica-de-privacidad"),
      Page("/aviso-legal"), Page("/terminos"), Page("/blog")>>

\* base_url.rstrip("/") + "/"
RootSeed(base) == Url(base.scheme, base.netloc, "/", 0)

\* What the site's sitemap lists in <loc> elements and its robots.txt in Sitemap: lines
SitemapLocs == {Team1, AssetUrl, OffSite}
RobotsSitemaps == {SitemapUrl}

\* The sites: the pages that answer OK, with or without sitemap.xml and robots.txt
Sites ==
    {P \cup F : P \in SUBSET {Root, Contact1, About1},
                F \in {{}, {SitemapUrl, RobotsUrl}}}

\* The <loc> entries kept from a sitemap that was fetched
KeptLocs(base) == {u \in SitemapLocs : _same_site(u, base) /\ ~_is_asset(u)}

\* The set _discover_seeds builds; a path whose fetch fails adds nothing
DiscoveredSeeds(base) ==
    {RootSeed(base)} \cup Range(Hints)
    \cup (IF SitemapUrl \in site THEN KeptLocs(base) ELSE {})
    \cup (IF RobotsUrl \in site THEN RobotsSitemaps ELSE {})

\* list(seeds): the iteration order of a set of strings is not fixed; two of
\* its orders, one the reverse of the other
AllSeeds == <<Root>> \o Hints \o <<Team1, SitemapUrl>>

Reverse(sq) == [i \in 1..Len(sq) |-> sq[Len(sq) + 1 - i]]

RECURSIVE Keep(_, _)
Keep(sq, S) ==
    IF sq = <<>> THEN <<>>
    ELSE IF Head(sq) \in S THEN <<Head(sq)>> \o Keep(Tail(sq), S)
         ELSE Keep(Tail(sq), S)

SeedOrders(S) == {Keep(AllSeeds, S), Keep(Reverse(AllSeeds), S)}

InitDomain ==
    /\ mode = "domain"
    /\ site \in Sites
    /\ max_pages = DEFAULT_MAX_PAGES
    /\ base_url = Base
    /\ pc = "root"
    /\ seeds = <<>>
    /\ visited = {}
    /\ queued = {}
    /\ priority_queue = {}
    /\ type_enqueued = [L \in Labels |-> 0]
    /\ order_counter = 0
    /\ cur = NoEntry
    /\ links_seen = 0
    /\ pages_data = <<>>
    /\ agg = NoAggregates
    /\ page = NoPage
    /\ crawl_ret = NoReturn
    /\ response = "pending"
    /\ result = NoResult
    /\ pushed = <<>>
    /\ popped = <<>>
    /\ offered = NoOffer
    /\ events = {}
    /\ reports = NoReports
    /\ jobs = NoJobs

Failure == [returned |-> TRUE, success |-> FALSE, error |-> "exception",
            has_site |-> FALSE, pages_crawled |-> 0, pages |-> <<>>]

RootOutcomes == {"response", "no_response", "raises"}

\* response = await page.goto(domain, ...); an exception goes to except Exception
RootGoto(o) ==
    /\ pc = "root"
    /\ IF o = "raises"
       THEN /\ result' = Failure
            /\ pc' = "done"
       ELSE /\ pc' = "inspect"
            /\ UNCHANGED result
    /\ response' = o
    /\ UNCHANGED <<reports, jobs, params, extraction, seeds, visited, queued, priority_queue,
                   type_enqueued, order_counter, cur, links_seen, pages_data, crawl_ret,
                   pushed, popped, offered, events>>

\* page.evaluate(navigation timing), get_seo_stats: inside the same try
RootInspect(raises) ==
    /\ pc = "inspect"
    /\ IF raises
       THEN /\ result' = Failure
            /\ pc' = "done"
       ELSE /\ pc' = "discover"
            /\ UNCHANGED result
    /\ UNCHANGED <<reports, jobs, params, extraction, seeds, visited, queued, priority_queue,
                   type_enqueued, order_counter, cur, links_seen, pages_data, crawl_ret,
                   response, pushed, popped, offered, events>>

\* seeds = await _discover_seeds(context, domain, timeout); _crawl_site starts
DiscoverSeeds ==
    /\ pc = "discover"
    /\ seeds' \in SeedOrders(DiscoveredSeeds(base_url))
    /\ pc' = "seeding"
    /\ UNCHANGED <<reports, jobs, params, extraction, visited, queued, priority_queue,
                   type_enqueued, order_counter, cur, links_seen, pages_data, crawl_ret,
                   response, result, pushed, popped, offered, events>>

\* return {..., "site": site_summary, "pages": pages_data,
\*         "success": response is not None, "error": None if response else "No response received"}
ReturnResult ==
    /\ pc = "returned"
    /\ result' = [returned |-> TRUE,
                  success |-> response # "no_response",
                  error |-> IF response # "no_response" THEN "none"
                            ELSE "No response received",
                  has_site |-> TRUE,
                  pages_crawled |-> crawl_ret.pages_crawled,
                  pages |-> crawl_ret.pages]
    /\ pc' = "done"
    /\ UNCHANGED <<reports, jobs, params, extraction, seeds, visited, queued, priority_queue,
                   type_enqueued, order_counter, cur, links_seen, pages_data, crawl_ret,
                   response, pushed, popped, offered, events>>

\* except Exception as e: return {"domain": domain, "error": str(e), "success": False}
CatchAll ==
    /\ pc = "raised"
    /\ result' = Failure
    /\ pc' = "done"
    /\ UNCHANGED <<reports, jobs, params, extraction, seeds, visited, queued, priority_queue,
                   type_enqueued, order_counter, cur, links_seen, pages_data, crawl_ret,
                   response, pushed, popped, offered, events>>

NextDomain ==
    \/ \E o \in RootOutcomes : RootGoto(o)
    \/ \E raises \in BOOLEAN : RootInspect(raises)
    \/ DiscoverSeeds
    \/ ReturnResult
    \/ CatchAll
    \/ Next

SpecDomain == InitDomain /\ [][NextDomain]_vars

----------------------------------------------------------------------------
(* ReportGenerationService.generate_report *)

InitReport ==
    /\ mode = "report"
    /\ site = {}
    /\ max_pages = 1
    /\ base_url = Base
    /\ pc = "report"
    /\ seeds = <<>>
    /\ visited = {}
    /\ queued = {}
    /\ priority_queue = {}
    /\ type_enqueued = [L \in Labels |-> 0]
    /\ order_counter = 0
    /\ cur = NoEntry
    /\ links_seen = 0
    /\ pages_data = <<>>
    /\ agg = NoAggregates
    /\ page = NoPage
    /\ crawl_ret = NoReturn
    /\ response = "pending"
    /\ result = NoResult
    /\ pushed = <<>>
    /\ popped = <<>>
    /\ offered = NoOffer
    /\ events = {}
    /\ \E ttl \in CacheTtls : reports = [NoReports EXCEPT !.ttl = ttl]
    /\ jobs = NoJobs

\* time passes
Tick ==
    /\ mode = "report"
    /\ reports.clock < MaxClock
    /\ reports' = [reports EXCEPT !.clock = @ + 1]
    /\ UNCHANGED <<crawler, jobs>>

\* generate_report up to its await: the cached row is returned, or the prompt
\* is rendered and sent to the provider
GenerateReport(key, force_refresh) ==
    /\ mode = "report"
    /\ reports.asked.n < MaxCalls
    /\ LET asked == [n |-> reports.asked.n + 1, key |-> key, force_refresh |-> force_refresh]
           hit == ~force_refresh /\ _cache_lookup(reports, key) # {}
       IN  IF hit
           THEN \E i \in _cache_lookup(reports, key) :
                    reports' = [reports EXCEPT
                        !.asked = asked,
                        !.ret = [key |-> key, cached |-> TRUE,
                                markdown |-> reports.logs[i].markdown_output,
                                raised |-> FALSE]]
           ELSE reports' = [reports EXCEPT
                    !.asked = asked,
                    !.provider_calls = @ + 1,
                    !.pending = @ \cup {[id |-> reports.provider_calls + 1, key |-> key]}]
    /\ UNCHANGED <<crawler, jobs>>

ProviderOutcomes == {"content", "http_error", "no_content"}

\* generate_report after its await: the log row and the generated report are
\* written and returned; an HTTP error or timeout is logged and raised; a
\* response without content is raised without a log row
ProviderAnswers(call, outcome) ==
    /\ mode = "report"
    /\ call \in reports.pending
    /\ reports' = [reports EXCEPT
           !.pending = @ \ {call},
           !.logs = CASE outcome = "content" ->
                             Append(@, LogRow(call.key, "success", reports.clock, call.id))
                      [] outcome = "http_error" ->
                             Append(@, LogRow(call.key, "error", reports.clock, 0))
                      [] OTHER -> @,
           !.generated = IF outcome = "content" THEN [@ EXCEPT ![call.key] = call.id] ELSE @,
           !.ret = [key |-> call.key, cached |-> FALSE,
                    markdown |-> IF outcome = "content" THEN call.id ELSE 0,
                    raised |-> outcome # "content"]]
    /\ UNCHANGED <<crawler, jobs>>

NextReport ==
    \/ Tick
    \/ \E key \in ReportKeys, force_refresh \in BOOLEAN : GenerateReport(key, force_refresh)
    \/ \E call \in reports.pending, outcome \in ProviderOutcomes : ProviderAnswers(call, outcome)

SpecReport == InitReport /\ [][NextReport]_vars

----------------------------------------------------------------------------
(* JobService: creating, starting, cancelling, retrying and executing jobs *)

InitJobs ==
    /\ mode = "jobs"
    /\ site = {}
    /\ max_pages = 1
    /\ base_url = Base
    /\ pc = "jobs"
    /\ seeds = <<>>
    /\ visited = {}
    /\ queued = {}
    /\ priority_queue = {}
    /\ type_enqueued = [L \in Labels |-> 0]
    /\ order_counter = 0
    /\ cur = NoEntry
    /\ links_seen = 0
    /\ pages_data = <<>>
    /\ agg = NoAggregates
    /\ page = NoPage
    /\ crawl_ret = NoReturn
    /\ response = "pending"
    /\ result = NoResult
    /\ pushed = <<>>
    /\ popped = <<>>
    /\ offered = NoOffer
    /\ events = {}
    /\ reports = NoReports
    /\ jobs = NoJobs

\* Job.mark_started, mark_completed, mark_failed, mark_cancelled
mark_started(row, now) == [row EXCEPT !.status = "running", !.started_at = now]
mark_completed(row, now) ==
    [row EXCEPT !.status = "completed", !.completed_at = now, !.result_summary = TRUE]
mark_failed(row, now) ==
    [row EXCEPT !.status = "failed", !.completed_at = now, !.error_message = TRUE]
mark_cancelled(row, now) == [row EXCEPT !.status = "cancelled", !.completed_at = now]

\* JobStep.mark_completed, JobStep.mark_failed
step_mark_completed(row, now) ==
    [row EXCEPT !.status = "completed", !.completed_at = now, !.result_data = TRUE]
step_mark_failed(row, now) ==
    [row EXCEPT !.status = "failed", !.completed_at = now, !.error_message = TRUE]

Called(op, job_id, ret) == [op |-> op, job_id |-> job_id, ret |-> ret]

\* create_single_scraping_job: the job row, and no step row
CreateSingleJob ==
    /\ mode = "jobs"
    /\ Len(jobs.jobs) < MaxJobs
    /\ jobs' = [jobs EXCEPT
                   !.jobs = Append(@, JobRow("single_scraping", 1)),
                   !.last = Called("create_single_scraping_job", Len(jobs.jobs) + 1, "job")]
    /\ UNCHANGED <<crawler, reports>>

\* create_batch_scraping_job: the job row and one step row per domain
CreateBatchJob(domains) ==
    /\ mode = "jobs"
    /\ Len(jobs.jobs) < MaxJobs
    /\ LET id == Len(jobs.jobs) + 1
       IN  jobs' = [jobs EXCEPT
                      !.jobs = Append(@, JobRow("batch_scraping", domains)),
                      !.steps = @ \o [idx \in 1..domains |-> StepRow(id, idx)],
                      !.last = Called("create_batch_scraping_job", id, "job")]
    /\ UNCHANGED <<crawler, reports>>

\* start_job: False for a registered job; else the task is created and registered
start_job(js, job_id) ==
    IF js._running_jobs[job_id] # 0 THEN [js |-> js, ret |-> FALSE]
    ELSE [js |-> [js EXCEPT !.tasks = Append(@, Task(job_id)),
                            !._running_jobs[job_id] = Len(js.tasks) + 1],
          ret |-> TRUE]

\* start_job called for a job that was created, as its callers do
StartJob(job_id) ==
    /\ mode = "jobs"
    /\ jobs.calls < MaxJobCalls
    /\ JobExists(jobs, job_id)
    /\ LET r == start_job(jobs, job_id)
       IN  /\ r.ret => Len(jobs.tasks) < MaxTasks
           /\ jobs' = [r.js EXCEPT
                         !.calls = @ + 1,
                         !.last = Called("start_job", job_id, IF r.ret THEN "True" ELSE "False")]
    /\ UNCHANGED <<crawler, reports>>

\* cancel_job
CancelJob(job_id) ==
    /\ mode = "jobs"
    /\ jobs.calls < MaxJobCalls
    /\ LET task == jobs._running_jobs[job_id]
           marked == [jobs EXCEPT !.jobs[job_id] = mark_cancelled(@, jobs.now + 1),
                                  !.now = @ + 1]
           \* task.cancel(); del cls._running_jobs[job_id]
           cancelled == IF task = 0 THEN marked
                        ELSE [marked EXCEPT
                                !.tasks[task].must_cancel = Unfinished(jobs.tasks[task]),
                                !._running_jobs[job_id] = 0]
       IN  jobs' = IF ~JobExists(jobs, job_id)
                   THEN [jobs EXCEPT !.calls = @ + 1,
                                     !.last = Called("cancel_job", job_id, "False")]
                   ELSE [cancelled EXCEPT !.calls = @ + 1,
                                          !.last = Called("cancel_job", job_id, "True")]
    /\ UNCHANGED <<crawler, reports>>

\* lines 328-343 of retry_job: the job and its steps are reset
ResetForRetry(js, job_id) ==
    [js EXCEPT
       !.jobs[job_id] = [@ EXCEPT !.status = "pending", !.started_at = 0,
                                  !.completed_at = 0, !.error_message = FALSE,
                                  !.result_summary = FALSE, !.completed_steps = 0,
                                  !.failed_steps = 0],
       !.steps = [i \in DOMAIN @ |->
                     IF @[i].job_id = job_id
                     THEN [StepRow(job_id, @[i].step_number) EXCEPT !.status = "pending"]
                     ELSE @[i]]]

\* retry_job
RetryJob(job_id) ==
    /\ mode = "jobs"
    /\ jobs.calls < MaxJobCalls
    /\ LET r == start_job(ResetForRetry(jobs, job_id), job_id)
           out == CASE ~JobExists(jobs, job_id) -> [js |-> jobs, ret |-> "None"]
                    [] JobExists(jobs, job_id) /\ is_job_running(jobs, job_id) ->
                           [js |-> jobs, ret |-> "RuntimeError"]
                    [] JobExists(jobs, job_id) /\ ~is_job_running(jobs, job_id)
                       /\ jobs.jobs[job_id].status \notin {"failed", "cancelled", "completed"} ->
                           [js |-> jobs, ret |-> "ValueError"]
                    [] OTHER -> [js |-> r.js, ret |-> IF r.ret THEN "job" ELSE "RuntimeError"]
       IN  /\ out.ret = "job" => Len(jobs.tasks) < MaxTasks
           /\ jobs' = [out.js EXCEPT !.calls = @ + 1,
                                     !.last = Called("retry_job", job_id, out.ret)]
    /\ UNCHANGED <<crawler, reports>>

\* finally: db.close(); if job_id in cls._running_jobs: del cls._running_jobs[job_id]
Finally(js, t, at) ==
    [js EXCEPT !._running_jobs[js.tasks[t].job_id] = 0,
               !.tasks[t].at = at,
               !.tasks[t].must_cancel = FALSE]

\* The task runs for the first time, up to its first await or to its end.
\* A task cancelled before it ran never enters the coroutine. For a batch
\* job, cls._execute_batch_scraping does not exist: AttributeError, caught at
\* line 175.
TaskBegins(t) ==
    /\ mode = "jobs"
    /\ t \in DOMAIN jobs.tasks
    /\ jobs.tasks[t].at = "created"
    /\ LET job_id == jobs.tasks[t].job_id
           started == [jobs EXCEPT !.jobs[job_id] = mark_started(@, jobs.now + 1),
                                   !.now = @ + 1]
           failed == [started EXCEPT !.jobs[job_id] = mark_failed(@, jobs.now + 2),
                                     !.now = @ + 1]
           step == Len(jobs.steps) + 1
           scraping ==
               [started EXCEPT
                  !.steps = Append(@, [StepRow(job_id, 1) EXCEPT
                                          !.status = "running",
                                          !.started_at = jobs.now + 2]),
                  !.jobs[job_id].total_steps = 1,
                  !.now = @ + 1,
                  !.tasks[t].at = "scrap_domain",
                  !.tasks[t].step = step]
       IN  jobs' = CASE jobs.tasks[t].must_cancel ->
                            [jobs EXCEPT !.tasks[t].at = "cancelled",
                                         !.tasks[t].must_cancel = FALSE]
                     [] ~jobs.tasks[t].must_cancel /\ ~JobExists(jobs, job_id) ->
                            Finally(jobs, t, "done")
                     [] ~jobs.tasks[t].must_cancel /\ JobExists(jobs, job_id)
                        /\ jobs.jobs[job_id].job_type = "batch_scraping" ->
                            Finally(failed, t, "done")
                     [] OTHER -> scraping
    /\ UNCHANGED <<crawler, reports>>

\* What the await of scrap_domain gives: a result with success, a result
\* without, an exception; for a task cancel() was called on, CancelledError,
\* unless a bare except inside scrap_domain swallowed it
ScrapOutcomes == {"success", "failure", "raises", "cancelled"}

\* The task resumes after await scrap_domain(domain) and runs to its end
TaskResumes(t, outcome) ==
    /\ mode = "jobs"
    /\ t \in DOMAIN jobs.tasks
    /\ jobs.tasks[t].at = "scrap_domain"
    /\ (outcome = "cancelled") => jobs.tasks[t].must_cancel
    /\ LET job_id == jobs.tasks[t].job_id
           step == jobs.tasks[t].step
           stepped ==
               IF outcome = "success"
               THEN [jobs EXCEPT !.steps[step] = step_mark_completed(@, jobs.now + 1),
                                 !.jobs[job_id].completed_steps = 1,
                                 !.now = @ + 1]
               ELSE [jobs EXCEPT !.steps[step] = step_mark_failed(@, jobs.now + 1),
                                 !.jobs[job_id].failed_steps = 1,
                                 !.now = @ + 1]
           \* if job.status == JobStatus.RUNNING: job.mark_completed(result_summary)
           completed ==
               IF stepped.jobs[job_id].status = "running"
               THEN [stepped EXCEPT !.jobs[job_id] = mark_completed(@, jobs.now + 2),
                                    !.now = @ + 1]
               ELSE stepped
       IN  jobs' = IF outcome = "cancelled"
                   THEN Finally(jobs, t, "cancelled")
                   ELSE Finally(completed, t, "done")
    /\ UNCHANGED <<crawler, reports>>

NextJobs ==
    \/ CreateSingleJob
    \/ \E domains \in 1..2 : CreateBatchJob(domains)
    \/ \E job_id \in JobIds : StartJob(job_id)
    \/ \E job_id \in JobIds : CancelJob(job_id)
    \/ \E job_id \in JobIds : RetryJob(job_id)
    \/ \E t \in 1..MaxTasks : TaskBegins(t)
    \/ \E t \in 1..MaxTasks, outcome \in ScrapOutcomes : TaskResumes(t, outcome)

SpecJobs == InitJobs /\ [][NextJobs]_vars

----------------------------------------------------------------------------
(* Properties *)

Happened(url, what) == Event(url, what) \in events

SnapshotUrls(pages) == {pages[i].url : i \in DOMAIN pages}

\* no value occurs twice in the sequence
NoRepeat(sq) == Cardinality({sq[i] : i \in DOMAIN sq}) = Len(sq)

PushedUrls == [i \in DOMAIN pushed |-> pushed[i].url]

PushedUnder(L) == {i \in DOMAIN pushed : pushed[i].label = L}

IndexIn(sq, x) == CHOOSE i \in DOMAIN sq : sq[i] = x

\* C1: for every label L, the number of URLs ever pushed into the frontier under
\* L is at most TYPE_PAGE_LIMITS[L], and the counter type_enqueued[L] is that
\* number: it never goes down when a URL is dequeued or fails, so a label at its
\* cap accepts no further URL.
C1_LabelCaps ==
    \A L \in Labels :
        LET n == Cardinality(PushedUnder(L))
        IN  n <= TYPE_PAGE_LIMITS[L] /\ type_enqueued[L] = n

\* C1 witness: eight blog URLs were pushed, one of them has been dequeued, and a
\* ninth blog URL found as a link on a page was turned away.
C1_Witness ==
    /\ Cardinality(PushedUnder("blog")) = 8
    /\ popped # <<>>
    /\ pc = "links"
    /\ offered.url = Blog1
    /\ ~offered.accepted
    /\ Blog1 \notin visited \cup queued

\* C2: the pages list never holds two snapshots of one URL and never more than
\* max_pages snapshots, while the crawl runs and in what it returns.
C2_PagesDistinctWithinBudget ==
    /\ NoRepeat([i \in DOMAIN pages_data |-> pages_data[i].url])
    /\ Len(pages_data) <= max_pages
    /\ crawl_ret.returned =>
           /\ NoRepeat([i \in DOMAIN crawl_ret.pages |-> crawl_ret.pages[i].url])
           /\ Len(crawl_ret.pages) <= max_pages

\* C2 witness: a crawl that returned max_pages = 2 snapshots with an entry still
\* pending in the frontier.
C2_Witness ==
    /\ crawl_ret.returned
    /\ max_pages = 2
    /\ Len(crawl_ret.pages) = 2
    /\ priority_queue # {}

\* C3: every dequeue removes the pending entry with the smallest (priority,
\* insertion sequence) pair; and of a contact-labelled and a blog-labelled seed
\* the blog seed is never dequeued unless the contact seed was dequeued before
\* it, whichever was enqueued first.
C3_SeedOrder ==
    \A i, j \in DOMAIN pushed :
        ( /\ pushed[i].at = "seeding"
          /\ pushed[j].at = "seeding"
          /\ pushed[i].label = "contact"
          /\ pushed[j].label = "blog"
          /\ \E k \in DOMAIN popped : popped[k] = pushed[j].url )
        => /\ \E k \in DOMAIN popped : popped[k] = pushed[i].url
           /\ IndexIn(popped, pushed[i].url) < IndexIn(popped, pushed[j].url)

C3_PopsMinimum ==
    Len(popped') = Len(popped) + 1 =>
        \E e \in priority_queue :
            /\ priority_queue' = priority_queue \ {e}
            /\ popped' = Append(popped, e.url)
            /\ \A f \in priority_queue :
                   \/ PAGE_PRIORITY[e.label] < PAGE_PRIORITY[f.label]
                   \/ PAGE_PRIORITY[e.label] = PAGE_PRIORITY[f.label] /\ e.seq <= f.seq

C3_PriorityOrder == []C3_SeedOrder /\ [][C3_PopsMinimum]_vars

\* C3 witness: the blog seed was enqueued first and the contact seed was
\* dequeued first.
C3_Witness ==
    /\ Len(pushed) = 2
    /\ pushed[1].url = Blog1
    /\ pushed[2].url = Contact1
    /\ popped = <<Contact1, Blog1>>

TabTrouble == \E e \in events : e.what \in {"open_raised", "close_raised"}

\* C4: when the root answered and no tab operation raised, the call returns
\* success = true with no error, and its pages hold a snapshot of every page
\* that loaded OK and whose extraction ran through, and none of a page whose
\* load failed, however many other pages failed to load.
C4_FailureIsolation ==
    (result.returned /\ response = "response" /\ offered.n > 0 /\ ~TabTrouble) =>
        /\ result.success
        /\ result.error = "none"
        /\ result.has_site
        /\ \A u \in visited :
               /\ (Happened(u, "loaded") /\ ~Happened(u, "threw"))
                      => u \in SnapshotUrls(result.pages)
               /\ Happened(u, "load_failed") => u \notin SnapshotUrls(result.pages)

\* C4 witness: A = the root and C = /about have snapshots, B = /contact answered
\* with a non-OK response and has none, and the call returned success = true.
C4_Witness ==
    /\ result.returned
    /\ result.success
    /\ {Root, About1} \subseteq SnapshotUrls(result.pages)
    /\ Happened(Contact1, "load_failed")
    /\ Contact1 \notin SnapshotUrls(result.pages)

\* C5: a page whose navigation raised, gave no response or gave a non-OK
\* response has no snapshot, had none of its anchors walked, stays visited, is not
\* pending, and was pushed and popped exactly once; the step in which the
\* navigation fails changes neither the frontier nor the pages nor the visited
\* set and leads to the finally, from which the loop goes on.
C5_FailedPages ==
    \A u \in {e.url : e \in events} :
        Happened(u, "load_failed") =>
            /\ u \in visited
            /\ u \notin queued
            /\ u \notin SnapshotUrls(pages_data)
            /\ ~Happened(u, "anchor")
            /\ ~Happened(u, "loaded")
            /\ Cardinality({i \in DOMAIN pushed : pushed[i].url = u}) = 1
            /\ Cardinality({i \in DOMAIN popped : popped[i] = u}) = 1

C5_FailingStep ==
    /\ (pc = "nav" /\ Event(cur.url, "load_failed") \in events') =>
           /\ pc' = "close"
           /\ UNCHANGED <<frontier, pushed, offered, visited, pages_data, cur>>
    /\ (pc = "close" /\ Happened(cur.url, "load_failed") /\ pc' # "raised") =>
           /\ pc' = "loop"
           /\ UNCHANGED <<frontier, pushed, offered, visited, pages_data>>

C5_LoadFailureLeavesNoTrace == []C5_FailedPages /\ [][C5_FailingStep]_vars

\* C5 witness: a page failed to load, a later page links to it, and the link
\* was turned away.
C5_Witness ==
    /\ pc = "links"
    /\ Happened(offered.url, "load_failed")
    /\ ~offered.accepted
    /\ offered.url # cur.url

\* C6 (as claimed): a scrap_domain call against a site whose only page is the
\* root, with no anchors on it, returns pages_crawled = 1 and exactly one
\* snapshot, the root's.
C6_SinglePageSite ==
    ( /\ result.returned
      /\ response = "response"
      /\ result.has_site
      /\ site = {Root}
      /\ Happened(Root, "loaded")
      /\ \A e \in events : e.what \notin {"anchor", "threw"} )
    => /\ result.pages_crawled = 1
       /\ Len(result.pages) = 1
       /\ result.pages[1].url = Root

\* C7: enqueue(url) turns the URL away exactly when it is empty, an asset, not
\* same-origin as the root, visited, pending, or its label is at its cap; a
\* rejected call leaves the heap, the pending set, the counters and the sequence
\* counter as they were; an accepted call adds the one entry (priority, sequence,
\* url, label), adds the URL to the pending set and adds one to that label's
\* counter only.
C7_EnqueueStep ==
    offered'.n = offered.n + 1 =>
        LET u == offered'.url
            L == _classify_by_url(u)
            rejected ==
                \/ u = Empty
                \/ _is_asset(u)
                \/ ~_same_site(u, base_url)
                \/ u \in visited
                \/ u \in queued
                \/ type_enqueued[L] >= TYPE_PAGE_LIMITS[L]
        IN  /\ offered'.accepted <=> ~rejected
            /\ rejected => UNCHANGED <<frontier, pushed>>
            /\ ~rejected =>
                   /\ priority_queue' =
                          priority_queue \cup
                              {Entry(PAGE_PRIORITY[L], order_counter, u, L)}
                   /\ Cardinality(priority_queue') = Cardinality(priority_queue) + 1
                   /\ queued' = queued \cup {u}
                   /\ \A M \in Labels :
                          type_enqueued'[M] = type_enqueued[M] + (IF M = L THEN 1 ELSE 0)

C7_EnqueueContract == [][C7_EnqueueStep]_vars

\* C7 witness: the root URL, neither visited nor pending, is turned away because
\* three home-labelled URLs were enqueued before it.
C7_Witness ==
    /\ offered.url = Root
    /\ ~offered.accepted
    /\ Root \notin visited \cup queued
    /\ type_enqueued["home"] = 3

\* C8: a URL is pushed into the frontier at most once and popped at most once,
\* and no pending entry is of a visited URL, so the URL a dequeue pops is never
\* in the visited set.
C8_PushedAndPoppedOnce ==
    /\ NoRepeat(PushedUrls)
    /\ NoRepeat(popped)
    /\ \A e \in priority_queue : e.url \notin visited
    /\ queued = {e.url : e \in priority_queue}

\* C8 witness: a page links to itself; the link is turned away because the URL
\* is visited.
C8_Witness ==
    /\ pc = "links"
    /\ offered.url = cur.url
    /\ offered.url \in visited
    /\ ~offered.accepted
    /\ Len(pushed) = offered.n - 1

\* C9 (as claimed): a result with success = false after the navigation to the
\* root raised or gave no response carries an error, holds no site summary and
\* no pages, and no seed was offered and no page visited (stated for the calls
\* in which no tab operation raised).
C9_FailureHasNoData ==
    ( /\ result.returned
      /\ ~result.success
      /\ response \in {"raises", "no_response"}
      /\ ~TabTrouble ) =>
        /\ result.error # "none"
        /\ ~result.has_site
        /\ result.pages = <<>>
        /\ offered.n = 0
        /\ visited = {}

\* C10 (as claimed): once the root has answered and the crawl has started, the
\* call returns success = true with the site summary, whatever fails later.
C10_LaterFailuresAreOmissions ==
    (result.returned /\ response = "response" /\ offered.n > 0) =>
        /\ result.success
        /\ result.has_site

\* C11: once the seeding phase is over the frontier has received at least one
\* entry, whatever the seed list was: when the loop is entered for the first
\* time the heap is not empty, and a crawl that returns has dequeued at least
\* one URL.
C11_FrontierNeverStartsEmpty ==
    pc # "seeding" =>
        /\ pushed # <<>>
        /\ (pc = "loop" /\ popped = <<>>) => priority_queue # {}
        /\ pc = "returned" => popped # <<>>

\* C11 witness: both seeds were turned away, the root was force-enqueued and
\* is the one page the crawl attempted.
C11_Witness ==
    /\ pc = "returned"
    /\ offered.n = 3
    /\ Len(pushed) = 1
    /\ pushed[1].url = base_url
    /\ popped = <<base_url>>

NoCaseTwins(emails) == \A a, b \in emails : Lower(a) = Lower(b) => a = b

\* C12: the e-mails collected from page texts and JSON-LD persons, and the
\* emails of the returned site summary, never hold two entries that are equal
\* once both are lowercased.
C12_EmailsCaseInsensitive ==
    /\ NoCaseTwins(agg.contact_emails)
    /\ crawl_ret.returned => NoCaseTwins(crawl_ret.site.contacts.emails)

\* C12 witness: a crawl of two pages returned the two addresses info@ex.com
\* (met in a page text) and bob@ex.com, the latter from a JSON-LD person whose
\* team contact keeps the written form Bob@Ex.com.
C12_Witness ==
    /\ crawl_ret.returned
    /\ crawl_ret.site.contacts.emails = {"info@ex.com", "bob@ex.com"}
    /\ Len(crawl_ret.pages) = 2
    /\ \E i \in DOMAIN crawl_ret.pages : "info@ex.com" \in crawl_ret.pages[i].emails_found
    /\ \E i \in DOMAIN crawl_ret.site.contacts.team_contacts :
           crawl_ret.site.contacts.team_contacts[i].email = "Bob@Ex.com"

AllPhones == {PhoneA, PhoneB, PhoneExt, PhoneShort, PhoneFive}

ShortPhones == {ph \in AllPhones : ph.digits < 8}

\* C13: phones_by_e164 holds one entry per E.164 number, an entry once stored
\* keeps its display form (the one seen first: a number of the page text comes
\* before the same number of a JSON-LD person), no entry comes from a candidate
\* with fewer than 8 digits, and the returned phones list has exactly one
\* element per stored number.
C13_PhoneEntries ==
    /\ \A p, q \in agg.phones_by_e164 : p.e164 = q.e164 => p = q
    /\ \A p \in agg.phones_by_e164 :
           /\ \E ph \in AllPhones \ ShortPhones :
                  p.e164 = ph.e164 /\ p.display = ph.international
           /\ \A ph \in ShortPhones :
                  p.e164 # ph.e164 /\ p.display \notin {ph.raw, ph.international}
    /\ crawl_ret.returned =>
           /\ Len(crawl_ret.site.contacts.phones) = Cardinality(agg.phones_by_e164)
           /\ \A p \in agg.phones_by_e164 :
                  Cardinality({i \in DOMAIN crawl_ret.site.contacts.phones :
                                  crawl_ret.site.contacts.phones[i] = p.display}) = 1
           /\ \A i \in DOMAIN crawl_ret.site.contacts.phones :
                  \A ph \in ShortPhones :
                      crawl_ret.site.contacts.phones[i] \notin {ph.raw, ph.international}

C13_FirstDisplayKept ==
    /\ \A p \in agg.phones_by_e164 : p \in agg'.phones_by_e164
    /\ \A ph \in AllPhones \ ShortPhones :
           ph.international \in page'.page_normalized_phones
               => \E p \in agg'.phones_by_e164 : p.e164 = ph.e164
    /\ \A p \in agg'.phones_by_e164 \ agg.phones_by_e164 :
           \A ph \in AllPhones :
               (ph.e164 = p.e164 /\ ph.international \in page'.page_normalized_phones)
                   => p.display = ph.international

C13_PhonesCollapse == []C13_PhoneEntries /\ [][C13_FirstDisplayKept]_vars

\* C13 witness: the number was met as "+54 11 4321-1234" in a page text and as
\* "+54 11 4321-1234 ext. 5" on a JSON-LD person; the returned list holds the
\* first form only, and the team contact shows the second.
C13_Witness ==
    /\ crawl_ret.returned
    /\ crawl_ret.site.contacts.phones = <<PhoneA.international>>
    /\ \E i \in DOMAIN crawl_ret.site.contacts.team_contacts :
           /\ crawl_ret.site.contacts.team_contacts[i].phone = PhoneExt.international
           /\ crawl_ret.site.contacts.team_contacts[i].phone_e164 = PhoneA.e164
    /\ \E i \in DOMAIN crawl_ret.site.contacts.team_contacts :
           crawl_ret.site.contacts.team_contacts[i].phone = PhoneFive.raw

\* C14: a page that loaded and has no forms, no JSON-LD blocks and no anchors
\* gets a snapshot with forms_count = 0 and jsonld_raw = [] and raises nothing;
\* and no step of an iteration other than the walk of an anchor changes the
\* heap, the pending set, the counters or the sequence counter, so that page
\* leaves the frontier as it found it.
C14_BlankSnapshot ==
    ( /\ pc = "links"
      /\ links_seen = 0
      /\ page.content.struct.forms = 0
      /\ page.content.ld = <<>> )
    => /\ ~Happened(cur.url, "threw")
       /\ ENABLED Snapshot
       /\ PageSnapshot(cur).forms_count = 0
       /\ PageSnapshot(cur).jsonld_raw = <<>>
       /\ PageSnapshot(cur).url = cur.url

C14_NoAnchorStep ==
    /\ (pc \in {"nav", "extract", "links", "close"} /\ links_seen' = links_seen)
           => UNCHANGED frontier
    /\ (pc = "links" /\ pc' = "close" /\ links_seen = 0 /\ links_seen' = 0) =>
           /\ Len(pages_data') = Len(pages_data) + 1
           /\ pages_data'[Len(pages_data')] = PageSnapshot(cur)
           /\ events' = events

C14_EmptyPage == []C14_BlankSnapshot /\ [][C14_NoAnchorStep]_vars

\* C14 witness: the snapshot of a page with text but no forms, no JSON-LD and
\* no anchors was appended while another URL was pending.
C14_Witness ==
    /\ pc = "close"
    /\ links_seen = 0
    /\ pages_data # <<>>
    /\ pages_data[Len(pages_data)].url = cur.url
    /\ pages_data[Len(pages_data)].forms_count = 0
    /\ pages_data[Len(pages_data)].jsonld_raw = <<>>
    /\ pages_data[Len(pages_data)].emails_found # {}
    /\ ~Happened(cur.url, "anchor")
    /\ priority_queue # {}

Sources(items, field) == {items[i][field] : i \in DOMAIN items}

\* C19 (as claimed): a page that loaded and then raised inside the try body has
\* no snapshot, and neither the running aggregates nor the returned summary
\* hold a form, a CTA highlight or a team contact that names it as their page.
C19_ThrowingPageExcluded ==
    \A u \in visited :
        Happened(u, "threw") =>
            /\ u \notin SnapshotUrls(pages_data)
            /\ u \notin Sources(agg.forms_detailed, "page")
            /\ u \notin Sources(agg.cta_highlights, "page")
            /\ u \notin Sources(agg.team_contacts, "source")
            /\ crawl_ret.returned =>
                   /\ u \notin Sources(crawl_ret.site.forms_detailed, "page")
                   /\ u \notin Sources(crawl_ret.site.cta_highlights, "page")
                   /\ u \notin Sources(crawl_ret.site.contacts.team_contacts, "source")

\* C20 (as claimed): a page that loaded, whose renderer calls all returned and
\* whose anchors all parsed, has its snapshot once its iteration is over,
\* whatever its JSON-LD blocks hold.
C20_JsonLdIsolated ==
    \A u \in visited :
        ( /\ Happened(u, "loaded")
          /\ Happened(u, "threw") => Happened(u, "jsonld_raised")
          /\ u # cur.url \/ pc \in {"loop", "returned"} )
        => u \in SnapshotUrls(pages_data)

PushedAt(u) == pushed[CHOOSE i \in DOMAIN pushed : pushed[i].url = u]

WasPopped(u) == \E k \in DOMAIN popped : popped[k] = u

\* C16: of two URLs enqueued under the same label, seeds or links found during
\* the crawl, the one enqueued later is never dequeued unless the one enqueued
\* first was dequeued before it.
C16_FifoWithinLabel ==
    \A i, j \in DOMAIN pushed :
        (i < j /\ pushed[i].label = pushed[j].label /\ WasPopped(pushed[j].url))
        => /\ WasPopped(pushed[i].url)
           /\ IndexIn(popped, pushed[i].url) < IndexIn(popped, pushed[j].url)

\* C16 witness: a contact URL that was a seed and a contact URL found as a link
\* on the first one's page were visited in that order.
C16_Witness ==
    /\ Len(popped) = 2
    /\ Len(pushed) = 2
    /\ pushed[1].label = "contact" /\ pushed[1].at = "seeding"
    /\ pushed[2].label = "contact" /\ pushed[2].at = "links"
    /\ popped = <<pushed[1].url, pushed[2].url>>
    /\ Happened(pushed[2].url, "loaded")

\* C17 (as claimed): over a whole crawl no URL is dequeued after a URL whose
\* label has a strictly larger priority number.
C17_StrictlyAscending ==
    \A i, j \in DOMAIN popped :
        i < j => PAGE_PRIORITY[PushedAt(popped[i]).label]
                     <= PAGE_PRIORITY[PushedAt(popped[j]).label]

\* C17 (amended): a URL is dequeued after a URL of a strictly larger priority
\* number only if it was enqueued after that URL was dequeued, that is, it was
\* found as a link while the crawl was running; among the URLs pending at a
\* dequeue the order is by ascending priority.
C17_AscendingAmongPending ==
    \A i, j \in DOMAIN popped :
        ( /\ i < j
          /\ PAGE_PRIORITY[PushedAt(popped[i]).label]
                 > PAGE_PRIORITY[PushedAt(popped[j]).label] )
        => /\ PushedAt(popped[j]).pops >= i
           /\ PushedAt(popped[j]).at = "links"

\* C17 witness: the blog seed was visited first and the contact page its page
\* links to was visited after it.
C17_Witness ==
    /\ popped = <<Blog1, Contact1>>
    /\ PushedAt(Contact1).at = "links"
    /\ PushedAt(Contact1).pops = 1
    /\ Happened(Contact1, "loaded")

\* C18: when no tab operation raises, the loop ends and _crawl_site returns;
\* and when it has returned, the frontier is empty or the number of visited
\* URLs is not below max_pages.
C18_ExitCondition ==
    pc = "returned" => (priority_queue = {} \/ Cardinality(visited) >= max_pages)

C18_LoopTerminates == <>(pc = "returned" \/ TabTrouble) /\ []C18_ExitCondition

\* C18 witness: every load timed out, the budget was used up and the crawl
\* returned with a URL still pending.
C18_Witness ==
    /\ pc = "returned"
    /\ priority_queue # {}
    /\ Cardinality(visited) = max_pages
    /\ max_pages = 2
    /\ \A u \in visited : Happened(u, "load_failed")
    /\ pages_data = <<>>

FreshRows(rs, key) ==
    {i \in DOMAIN rs.logs :
        /\ rs.logs[i].key = key
        /\ rs.logs[i].status = "success"
        /\ rs.ttl > 0
        /\ rs.logs[i].created_at >= rs.clock - rs.ttl}

NewestRows(rs, key) ==
    {i \in FreshRows(rs, key) :
        \A j \in FreshRows(rs, key) : rs.logs[j].created_at <= rs.logs[i].created_at}

\* C15: a call without force_refresh that finds a successful generation of its
\* (report, type) within the TTL returns cached = True with the markdown of a
\* most recent one, calls no provider and writes nothing; it is served from
\* the cache in no other case, so never from a failed generation; a call with
\* force_refresh always goes to the provider; and a call that returns
\* cached = False returns the provider's new markdown, which has replaced the
\* stored generated report and is logged as a success.
C15_Call ==
    reports'.asked.n = reports.asked.n + 1 =>
        LET key == reports'.asked.key
            hit == ~reports'.asked.force_refresh /\ FreshRows(reports, key) # {}
        IN  /\ hit =>
                   /\ reports'.pending = reports.pending
                   /\ reports'.ret.cached /\ ~reports'.ret.raised
                   /\ reports'.ret.key = key
                   /\ reports'.ret.markdown \in
                          {reports.logs[i].markdown_output : i \in NewestRows(reports, key)}
                   /\ reports'.provider_calls = reports.provider_calls
                   /\ reports'.logs = reports.logs
                   /\ reports'.generated = reports.generated
            /\ ~hit =>
                   /\ reports'.ret = reports.ret
                   /\ reports'.provider_calls = reports.provider_calls + 1
                   /\ \E call \in reports'.pending \ reports.pending : call.key = key

C15_Return ==
    reports'.pending # reports.pending /\ reports'.pending \subseteq reports.pending =>
        LET key == reports'.ret.key
        IN  /\ ~reports'.ret.cached
            /\ \E call \in reports.pending \ reports'.pending : call.key = key
            /\ IF reports'.ret.raised
               THEN /\ reports'.generated = reports.generated
                    /\ FreshRows(reports', key) = FreshRows(reports, key)
               ELSE /\ reports'.generated[key] = reports'.ret.markdown
                    /\ \A i \in DOMAIN reports.logs :
                           reports.logs[i].markdown_output # reports'.ret.markdown
                    /\ reports'.logs =
                           Append(reports.logs,
                                  LogRow(key, "success", reports.clock, reports'.ret.markdown))

C15_CacheOrProvider == [][C15_Call /\ C15_Return]_vars

\* C15 witness: the first generation was replaced by a forced one, and a call
\* without force_refresh was then served the second markdown from the cache
\* without a third call of the provider.
C15_Witness ==
    /\ reports.ret.cached
    /\ reports.ret.markdown = 2
    /\ reports.generated[reports.ret.key] = 2
    /\ Len(reports.logs) = 2
    /\ \A i \in DOMAIN reports.logs :
           reports.logs[i].key = reports.ret.key /\ reports.logs[i].status = "success"
    /\ reports.asked.n = 3
    /\ ~reports.asked.force_refresh
    /\ reports.provider_calls = 2
    /\ reports.pending = {}

\* The Person nodes of the JSON-LD blocks of the page being handled
LdNodes ==
    UNION {{page.ld_json[i].nodes[j] : j \in DOMAIN page.ld_json[i].nodes} :
           i \in DOMAIN page.ld_json}

\* The first contact point of a node that carries the field, if any
RECURSIVE FirstCarrying(_, _, _)
FirstCarrying(cps, field, absent) ==
    IF cps = <<>> THEN absent
    ELSE IF Truthy(Head(cps)[field]) THEN Head(cps)[field]
         ELSE FirstCarrying(Tail(cps), field, absent)

\* C21: every Person node of a page gives a team contact whose e-mail
\* (phone) is the node's own when it has one and otherwise that of its
\* contactPoint, and is null only when neither carries the field.
C21_ContactPointFallback ==
    \A node \in LdNodes :
        \A i \in DOMAIN page.page_team_contacts :
            LET t == page.page_team_contacts[i]
                email == IF Truthy(node.email) THEN node.email
                         ELSE FirstCarrying(node.contactPoint.items, "email", JNull(""))
                phone == IF Truthy(node.telephone) THEN node.telephone
                         ELSE FirstCarrying(node.contactPoint.items, "telephone",
                                            JNull(NoPhone))
            IN  t.name = node.name =>
                    /\ (t.email = "none") <=> ~Truthy(email)
                    /\ Truthy(email) => t.email = Strip(email.val)
                    /\ (t.phone = "none") <=> ~Truthy(phone)

NoDuplicates(sq) == \A i, j \in DOMAIN sq : sq[i] = sq[j] => i = j

IsPrefix(a, b) == Len(a) <= Len(b) /\ \A i \in DOMAIN a : a[i] = b[i]

\* Where a value first occurs in a list
FirstAt(sq, v) ==
    LET at == {i \in DOMAIN sq : sq[i] = v}
    IN  CHOOSE i \in at : \A j \in at : i <= j

\* kept holds, in the order of their first occurrence in seen, the first
\* values of seen, at most cap of them
FirstSeenWins(kept, seen, cap) ==
    LET at == [i \in DOMAIN kept |-> FirstAt(seen, kept[i])]
    IN  /\ Len(kept) <= cap
        /\ NoDuplicates(kept)
        /\ Range(kept) \subseteq Range(seen)
        /\ \A i \in 1..(Len(kept) - 1) : at[i] < at[i + 1]
        /\ \A j \in DOMAIN seen :
               seen[j] \notin Range(kept) => Len(kept) = cap /\ at[cap] < j

BusinessCap(key) == IF key = "addresses" THEN 20 ELSE 15

\* the returned summary: sizes, no repeats, the first seen kept
C22_SummaryCapped ==
    crawl_ret.returned =>
        LET S == crawl_ret.site
        IN  /\ FirstSeenWins(S.contacts.team_contacts, agg.team_contacts, MAX_TEAM_CONTACTS)
            /\ FirstSeenWins(S.cta_highlights, agg.cta_highlights, MAX_CTA_HIGHLIGHTS)
            /\ Len(S.forms_detailed) <= MAX_FORMS_STORED
            /\ IsPrefix(S.forms_detailed, agg.forms_detailed)
            /\ \A key \in BusinessKeys : S.business[key] = agg.business_summary[key]

\* the business lists at any moment of the crawl
C22_BusinessBounded ==
    \A key \in BusinessKeys :
        /\ Len(agg.business_summary[key]) <= BusinessCap(key)
        /\ NoDuplicates(agg.business_summary[key])

\* one page merge: what the list held stays in place, at most five sentences
\* are added, and a sentence among the page's first five is left out only
\* when the list is full
C22_PageMerge ==
    \A key \in BusinessKeys :
        LET old == agg.business_summary[key]
            new == agg'.business_summary[key]
            offered5 == IF key = "addresses" THEN Take(page'.content.text.addresses, 5)
                        ELSE Take(page'.content.text.sentences, 5)
        IN  /\ IsPrefix(old, new)
            /\ Len(new) - Len(old) <= 5
            /\ pc = "extract" /\ pc' = "links" =>
                   /\ Range(new) \subseteq Range(old) \cup Range(offered5)
                   /\ FirstSeenWins(new, old \o offered5, BusinessCap(key))

\* C22: the returned summary holds at most 40 team contacts, 80 forms,
\* 60 CTA highlights, 15 sentences per business category and 20 addresses;
\* team contacts, CTA highlights and business lists have no repeats and keep
\* the entries seen first in crawl order; a page adds at most five sentences
\* to a category, and the business bounds hold after every page merge.
C22_StoredListsCapped ==
    /\ [](C22_SummaryCapped /\ C22_BusinessBounded)
    /\ [][C22_PageMerge]_vars

\* C22 witness: five heavy pages were merged and every list was cut
C22_Witness ==
    /\ crawl_ret.returned
    /\ Len(agg.team_contacts) > MAX_TEAM_CONTACTS
    /\ Len(crawl_ret.site.contacts.team_contacts) = MAX_TEAM_CONTACTS
    /\ Len(agg.forms_detailed) > MAX_FORMS_STORED
    /\ Len(crawl_ret.site.forms_detailed) = MAX_FORMS_STORED
    /\ Len(agg.cta_highlights) > MAX_CTA_HIGHLIGHTS
    /\ Len(crawl_ret.site.cta_highlights) = MAX_CTA_HIGHLIGHTS
    /\ Len(crawl_ret.site.business.services) = 15
    /\ Len(crawl_ret.site.business.addresses) = 20
    /\ Len(pages_data) = MaxCapPages

\* C30: every entry of a snapshot's cta_sample was found on the page of the
\* snapshot, and a page with no CTA of its own has an empty cta_sample.
C30_CtaSampleOfOwnPage ==
    \A i \in DOMAIN pages_data :
        \A c \in Range(pages_data[i].cta_sample) : c.page = pages_data[i].url

\* C28: every dequeued URL takes one unit of the page budget, whether it
\* loads, fails to load or throws during extraction: the dequeued URLs are
\* the visited ones and never more than max_pages, and the crawl returns
\* pages_crawled equal to their number, with len(pages) <= pages_crawled.
C28_PagesCrawledCountsDequeues ==
    /\ Cardinality(visited) = Len(popped)
    /\ Len(popped) <= max_pages
    /\ crawl_ret.returned =>
           /\ crawl_ret.site.pages_crawled = Len(popped)
           /\ Len(crawl_ret.pages) <= crawl_ret.site.pages_crawled
           /\ crawl_ret.site.pages_crawled <= max_pages

\* C28 witness: a crawl of two pages, one that failed to load and one that
\* threw, returned pages_crawled = 2 and no snapshot
C28_Witness ==
    /\ crawl_ret.returned
    /\ max_pages = 2
    /\ crawl_ret.site.pages_crawled = 2
    /\ crawl_ret.pages = <<>>
    /\ \E u, v \in visited : Happened(u, "load_failed") /\ Happened(v, "threw")

RECURSIVE SumOfLimits(_)
SumOfLimits(labels) ==
    IF labels = {} THEN 0
    ELSE LET L == CHOOSE x \in labels : TRUE
         IN  TYPE_PAGE_LIMITS[L] + SumOfLimits(labels \ {L})

Min(a, b) == IF a <= b THEN a ELSE b

\* The seeds that entered the frontier with a priority ahead of the root's
SeedsAheadOfHome ==
    {i \in DOMAIN pushed :
        /\ pushed[i].at = "seeding"
        /\ _page_priority(pushed[i].label) < _page_priority("home")}

\* C29: a crawl never enqueues more URLs than the per-label caps add up to,
\* 44, whatever max_pages is, so pages_crawled <= min(max_pages, 44) even
\* with the default budget of 60; and when the budget does not exceed the
\* number of seeds of higher priority than home, no home page is dequeued.
C29_EnqueuedWithinSumOfCaps ==
    /\ SumOfLimits(Labels) = 44
    /\ Len(pushed) <= SumOfLimits(Labels)
    /\ Cardinality(visited) <= Min(max_pages, 44)
    /\ crawl_ret.returned => crawl_ret.site.pages_crawled <= Min(max_pages, 44)
    /\ Cardinality(SeedsAheadOfHome) >= max_pages =>
           \A u \in visited : _classify_by_url(u) # "home"

\* C29 witness: with the default budget of 60 the crawl returned after 44
\* pages, every label full, the frontier empty and an anchor turned away
C29_Witness ==
    /\ crawl_ret.returned
    /\ max_pages = DEFAULT_MAX_PAGES
    /\ Len(pushed) = 44
    /\ \A L \in Labels : type_enqueued[L] = TYPE_PAGE_LIMITS[L]
    /\ crawl_ret.site.pages_crawled = 44
    /\ priority_queue = {}
    /\ \E u \in visited : Happened(u, "anchor")

\* An execution in progress: its task has not ended and was not cancelled
InProgress(task) == Unfinished(task) /\ ~task.must_cancel

\* The executions of a job that are in progress
Live(js, job_id) ==
    {t \in DOMAIN js.tasks : js.tasks[t].job_id = job_id /\ InProgress(js.tasks[t])}

\* This step is a call of op, which returned
CallOf(op) == jobs'.calls = jobs.calls + 1 /\ jobs'.last.op = op

C23_OnePerJob ==
    \A job_id \in JobIds :
        /\ Cardinality(Live(jobs, job_id)) <= 1
        /\ \A t \in Live(jobs, job_id) : jobs._running_jobs[job_id] = t

C23_StartRefused ==
    CallOf("start_job") /\ Live(jobs, jobs'.last.job_id) # {} =>
        jobs'.last.ret = "False" /\ jobs'.tasks = jobs.tasks

\* C23: whatever the order of start_job, cancel_job, retry_job and the ends
\* of the tasks, a job has at most one execution in progress, _running_jobs
\* refers to it, and start_job returns False and creates no task meanwhile.
C23_OneExecutionPerJob == []C23_OnePerJob /\ [][C23_StartRefused]_vars

\* C24: cancel_job sets a pending or running job to CANCELLED, cancels its
\* task and removes the registry entry; it leaves the status and completed_at
\* of a completed, failed or cancelled job as they are; for an unknown id it
\* returns False and changes nothing.
C24_CancelOnlyActiveJobs ==
    [][CallOf("cancel_job") =>
         LET job_id == jobs'.last.job_id
             task == jobs._running_jobs[job_id]
         IN  IF ~JobExists(jobs, job_id)
             THEN /\ jobs'.last.ret = "False"
                  /\ jobs'.jobs = jobs.jobs /\ jobs'.steps = jobs.steps
                  /\ jobs'.tasks = jobs.tasks
                  /\ jobs'._running_jobs = jobs._running_jobs
             ELSE IF jobs.jobs[job_id].status \in {"pending", "running"}
             THEN /\ jobs'.jobs[job_id].status = "cancelled"
                  /\ jobs'._running_jobs[job_id] = 0
                  /\ task # 0 => ~InProgress(jobs'.tasks[task])
             ELSE /\ jobs'.jobs[job_id].status = jobs.jobs[job_id].status
                  /\ jobs'.jobs[job_id].completed_at = jobs.jobs[job_id].completed_at]_vars

\* C25: retry_job raises RuntimeError on a job whose execution is in
\* progress and ValueError on a pending, running or paused job (either of
\* the two when both apply), and leaves the job and its steps unchanged; on
\* a failed, cancelled or completed job that is not executing it resets the
\* job and every step and starts exactly one new execution.
C25_RetryOnlyEndedJobs ==
    [][CallOf("retry_job") /\ JobExists(jobs, jobs'.last.job_id) =>
         LET job_id == jobs'.last.job_id
             unchanged == /\ jobs'.jobs = jobs.jobs /\ jobs'.steps = jobs.steps
                          /\ jobs'.tasks = jobs.tasks
             active == jobs.jobs[job_id].status \in {"pending", "running", "paused"}
         IN  IF Live(jobs, job_id) # {}
             THEN /\ jobs'.last.ret \in
                         IF active THEN {"RuntimeError", "ValueError"} ELSE {"RuntimeError"}
                  /\ unchanged
             ELSE IF active
             THEN jobs'.last.ret = "ValueError" /\ unchanged
             ELSE /\ jobs'.jobs[job_id] =
                         JobRow(jobs.jobs[job_id].job_type, jobs.jobs[job_id].total_steps)
                  /\ \A i \in StepsOf(jobs', job_id) : jobs'.steps[i].status = "pending"
                  /\ Len(jobs'.tasks) = Len(jobs.tasks) + 1
                  /\ Cardinality(Live(jobs', job_id)) = 1]_vars

\* C26: when execute_job finishes for a batch job that was not cancelled,
\* no step of the job is pending or running and completed_steps +
\* failed_steps = total_steps.
C26_BatchStepsAllExecuted ==
    [][\A t \in DOMAIN jobs.tasks :
         LET job_id == jobs.tasks[t].job_id
         IN  ( /\ jobs.tasks[t].at # "done"
               /\ jobs'.tasks[t].at = "done"
               /\ JobExists(jobs, job_id)
               /\ jobs.jobs[job_id].job_type = "batch_scraping"
               /\ jobs'.jobs[job_id].status # "cancelled" )
             => /\ \A i \in StepsOf(jobs', job_id) :
                       jobs'.steps[i].status \notin {"pending", "running"}
                /\ jobs'.jobs[job_id].completed_steps + jobs'.jobs[job_id].failed_steps
                       = jobs'.jobs[job_id].total_steps]_vars

\* C27: the step rows of a job have distinct step numbers within
\* 1..total_steps, and once the job has been executed there is one row for
\* each number; a retry of a single-scraping job adds no second step.
C27_OneRowPerStep ==
    \A job_id \in DOMAIN jobs.jobs :
        LET rows == StepsOf(jobs, job_id)
            numbers == {jobs.steps[i].step_number : i \in rows}
        IN  /\ \A a, b \in rows :
                   jobs.steps[a].step_number = jobs.steps[b].step_number => a = b
            /\ numbers \subseteq 1..jobs.jobs[job_id].total_steps
            /\ (\E t \in DOMAIN jobs.tasks :
                    jobs.tasks[t].job_id = job_id /\ jobs.tasks[t].at \in {"scrap_domain", "done"})
                   => numbers = 1..jobs.jobs[job_id].total_steps

====
